---- MODULE Spec2Model ----
(***************************************************************************)
(* State-machine model of the NEP-171/178/199 token contract in            *)
(* src/contract/src: ownership, approvals, royalties and the two-stage     *)
(* nft_transfer_call / nft_resolve_transfer protocol.                      *)
(*                                                                         *)
(* Encoding conventions                                                    *)
(*   Option<AccountId>        NoAccount = "none"                           *)
(*   Option<u64>              0 = None (approval ids start at 1)           *)
(*   HashMap<AccountId,u64>   total function Accounts -> Nat, 0 = no entry *)
(*   Option<HashMap<..>>      record [some, ids]                           *)
(*   HashMap<AccountId,u32>   total function Accounts -> Int, -1 = no entry*)
(*   a panic                  the call's result carries the contract state *)
(*                            at entry (the host discards every write of a *)
(*                            failed receipt) and an error kind            *)
(***************************************************************************)
EXTENDS Integers, Sequences, FiniteSets, TLC

(* ------------------------------------------------------------------ *)
(* Bounds of the model                                                  *)
(* ------------------------------------------------------------------ *)
\* number of approvals granted per token in one behaviour
MaxApprovals == 2
\* number of nft_transfer_call promise chains explored per behaviour
MaxCalls == 1

Accounts == {"aa", "bb", "cc"}
Tokens == {"t1", "t2"}
\* the tokens the calls of Spec are made on
CoreTokens == {"t1"}
NoAccount == "none"
NoToken == "none"

\* Contract.owner_id, fixed by new()
owner_id == "cc"

MINTER_ROYALTY_CAP == 7000
ADMIN_ROYALTY == 150
MAX_PERPETUAL_ROYALTIES == 7
ONE_YOCTO == 1
\* bytes_for_approved_account_id, in units of one storage byte's price,
\* for the two-character account ids of this model: 2 + 4 + size_of::<u64>()
EntryBytes == 14


VARIABLES
    owner_by_id,            \* TreeMap<TokenId, AccountId>
    tokens_per_owner,       \* Option<LookupMap<AccountId, UnorderedSet<TokenId>>>
    approvals_by_id,        \* Option<LookupMap<TokenId, HashMap<AccountId, u64>>>
    next_approval_id_by_id, \* Option<LookupMap<TokenId, u64>>
    royalty_by_id,          \* Option<LookupMap<TokenId, TokenRoyalty>>
    approvals_enabled,      \* whether approvals_by_id and next_approval_id_by_id are Some
    allow_list,             \* LookupSet<AccountId>
    pending,                \* promise chains nft_on_transfer.then(nft_resolve_transfer)
    nCalls,                 \* number of chains scheduled so far
    last,                   \* the receipt executed by the last step and its outcome
    approvedBy,             \* history: who created each entry of approvals_by_id
    idLog                   \* history: approval ids assigned per token, in order

vars == <<owner_by_id, tokens_per_owner, approvals_by_id, next_approval_id_by_id,
          royalty_by_id, approvals_enabled, allow_list, pending, nCalls, last,
          approvedBy, idLog>>

(* ------------------------------------------------------------------ *)
(* Data                                                                 *)
(* ------------------------------------------------------------------ *)
NoApprovals == [a \in Accounts |-> 0]
NoneMap == [some |-> FALSE, ids |-> NoApprovals]
SomeMap(m) == [some |-> TRUE, ids |-> m]
\* the keys of a HashMap<AccountId, u64>
Keys(m) == {a \in Accounts : m[a] # 0}
\* the approvals a view (nft_token) shows: an absent entry reads as an empty map
ApprovalsOf(c, t) == c.approvals_by_id[t].ids

NoRoyalty == [a \in Accounts |-> -1]
RoyaltyKeys(r) == {a \in Accounts : r[a] # -1}

NoSet == [some |-> FALSE, ids |-> {}]

\* the persistent fields of Contract, as one value
Self ==
    [owner_by_id |-> owner_by_id,
     tokens_per_owner |-> tokens_per_owner,
     approvals_by_id |-> approvals_by_id,
     next_approval_id_by_id |-> next_approval_id_by_id,
     royalty_by_id |-> royalty_by_id,
     approvals_enabled |-> approvals_enabled,
     allow_list |-> allow_list]

\* results of a call: the contract state it leaves, its error kind ("ok" when
\* it returns), the events it logged, the promise chains it scheduled, the
\* storage refunds it issued and its return value
Ok(c, events, promises, refunds, ret) ==
    [c |-> c, err |-> "ok", events |-> events, promises |-> promises,
     refunds |-> refunds, ret |-> ret]
\* env::panic_str / require! / assert! / expect: the receipt fails and the host
\* keeps the state the call was entered with
Panic(entry, kind) ==
    [c |-> entry, err |-> kind, events |-> <<>>, promises |-> <<>>,
     refunds |-> <<>>, ret |-> "none"]

\* NftTransferEvent with the two owners exchanged
NftTransferEvent_swapped(old, new, t, auth) ==
    [kind |-> "nft_transfer", old_owner_id |-> new, new_owner_id |-> old,
     token_id |-> t, authorized_id |-> auth]

NftTransferEvent(old, new, t, auth) ==
    [kind |-> "nft_transfer", old_owner_id |-> old, new_owner_id |-> new,
     token_id |-> t, authorized_id |-> auth]
NftMintEvent(o, t) ==
    [kind |-> "nft_mint", old_owner_id |-> NoAccount, new_owner_id |-> o,
     token_id |-> t, authorized_id |-> NoAccount]

(* ------------------------------------------------------------------ *)
(* internal.rs                                                          *)
(* ------------------------------------------------------------------ *)
\* assert_one_yocto
assert_one_yocto(deposit) == deposit = ONE_YOCTO
\* assert_at_least_one_yocto
assert_at_least_one_yocto(deposit) == deposit >= ONE_YOCTO

\* royalty_to_payout with the division rounded up
royalty_to_payout_ceil(royalty_percentage, amount_to_pay) ==
    (royalty_percentage * amount_to_pay + 9999) \div 10000

\* royalty_to_payout: royalty_percentage * amount_to_pay / 10_000, integer division
royalty_to_payout(royalty_percentage, amount_to_pay) ==
    (royalty_percentage * amount_to_pay) \div 10000

\* internal_transfer_unguarded storing the set of `from` when it is left empty
internal_transfer_unguarded_keeps_empty(c, token, from, to) ==
    LET owners == [c.owner_by_id EXCEPT ![token] = to]
        fromSet == c.tokens_per_owner[from]
        owner_tokens == fromSet.ids \ {token}
        tpo1 == [c.tokens_per_owner EXCEPT ![from] = [some |-> TRUE, ids |-> owner_tokens]]
        receiver_tokens == tpo1[to].ids \cup {token}
        tpo2 == [tpo1 EXCEPT ![to] = [some |-> TRUE, ids |-> receiver_tokens]]
    IN  IF ~fromSet.some
        THEN [c |-> c, ok |-> FALSE]
        ELSE [c |-> [c EXCEPT !.owner_by_id = owners, !.tokens_per_owner = tpo2],
              ok |-> TRUE]

\* internal_transfer_unguarded: on the contract state c, move token from `from`
\* to `to` in owner_by_id and in the per-owner index. The result is a record
\* [c, ok]; ok is FALSE when the index has no set for `from` (panic).
internal_transfer_unguarded(c, token, from, to) ==
    LET owners == [c.owner_by_id EXCEPT ![token] = to]
        fromSet == c.tokens_per_owner[from]
        owner_tokens == fromSet.ids \ {token}
        tpo1 == IF owner_tokens = {}
                THEN [c.tokens_per_owner EXCEPT ![from] = NoSet]
                ELSE [c.tokens_per_owner EXCEPT ![from] = [some |-> TRUE, ids |-> owner_tokens]]
        receiver_tokens == tpo1[to].ids \cup {token}
        tpo2 == [tpo1 EXCEPT ![to] = [some |-> TRUE, ids |-> receiver_tokens]]
    IN  IF ~fromSet.some
        THEN [c |-> c, ok |-> FALSE]
        ELSE [c |-> [c EXCEPT !.owner_by_id = owners, !.tokens_per_owner = tpo2],
              ok |-> TRUE]

\* remove_approvals without the removal
remove_approvals_kept(c, token_id) == c

\* internal_transfer, lines 127-130: approvals_by_id.remove(token_id)
remove_approvals(c, token_id) == [c EXCEPT !.approvals_by_id[token_id] = NoneMap]

\* sender_check without the comparison of the approval ids
sender_check_any_id(owner, approved_account_ids, sender_id, approval_id) ==
    IF sender_id = owner THEN "ok"
    ELSE IF ~approved_account_ids.some THEN "Unauthorized"
    ELSE IF approved_account_ids.ids[sender_id] = 0 THEN "Unauthorized"
    ELSE "ok"

\* internal_transfer, lines 132-151: the check of a sender against the owner and
\* the approval map removed from the token; "ok" when the sender may transfer
sender_check(owner, approved_account_ids, sender_id, approval_id) ==
    IF sender_id = owner THEN "ok"
    ELSE IF ~approved_account_ids.some THEN "Unauthorized"
    ELSE IF approved_account_ids.ids[sender_id] = 0 THEN "Unauthorized"
    ELSE IF ~(approval_id = 0 \/ approved_account_ids.ids[sender_id] = approval_id)
        THEN "InvalidApproval"
    ELSE "ok"

\* receiver_check without the require!
receiver_check_none(owner, receiver_id) == "ok"

\* internal_transfer, lines 153-156: require!(&owner_id != receiver_id)
receiver_check(owner, receiver_id) ==
    IF owner # receiver_id THEN "ok" ELSE "SelfTransferRejected"

\* authorized_id without the filter: the sender that is not the owner
authorized_id_unfiltered(sender_id, owner) ==
    IF sender_id # owner THEN sender_id ELSE NoAccount

\* internal_transfer, lines 132-151 and 163: authorized_id of the event. The
\* sender is kept as Some(sender_id) when it differs from the owner and is None
\* otherwise; the event takes sender_id.filter(|s| s == owner).
authorized_id(sender_id, owner) ==
    LET checked == IF sender_id # owner THEN sender_id ELSE NoAccount
    IN  IF checked # NoAccount /\ checked = owner THEN checked ELSE NoAccount

\* internal_transfer: the owner lookup, the removal of the token's approval map,
\* the authorization of a sender that is not the owner, the self-transfer check,
\* the move and the event.
\* Returns (owner_id, approved_account_ids) as ret.
internal_transfer(c, sender_id, receiver_id, token_id, approval_id) ==
    LET owner == c.owner_by_id[token_id]
        approved_account_ids == c.approvals_by_id[token_id]
        c1 == remove_approvals(c, token_id)
        auth == sender_check(owner, approved_account_ids, sender_id, approval_id)
        moved == internal_transfer_unguarded(c1, token_id, owner, receiver_id)
    IN  IF owner = NoAccount THEN Panic(c, "NotFound")
        ELSE IF auth # "ok" THEN Panic(c, auth)
        ELSE IF receiver_check(owner, receiver_id) # "ok"
            THEN Panic(c, receiver_check(owner, receiver_id))
        ELSE IF ~moved.ok THEN Panic(c, "Panic")
        ELSE Ok(moved.c,
                <<NftTransferEvent(owner, receiver_id, token_id,
                                   authorized_id(sender_id, owner))>>,
                <<>>, <<>>,
                [owner_id |-> owner, approved_account_ids |-> approved_account_ids])

\* internal_mint, lines 36-61: the royalty schedule of a new token, or the error
\* of the assert that fails. perpetual_royalties is [some, royalty].
\* The loop's asserts hold for every order of iteration exactly when every
\* amount is below the cap and 150 plus their sum is within it.
RECURSIVE SumShares(_, _)
SumShares(r, S) ==
    IF S = {} THEN 0
    ELSE LET a == CHOOSE x \in S : TRUE IN r[a] + SumShares(r, S \ {a})

\* mint_royalty without the assert on the running total
mint_royalty_no_total_cap(perpetual_royalties) ==
    LET base == [NoRoyalty EXCEPT ![owner_id] = ADMIN_ROYALTY]
        given == perpetual_royalties.royalty
        K == RoyaltyKeys(given)
    IN  IF ~perpetual_royalties.some THEN [err |-> "ok", royalty |-> base]
        ELSE IF \E a \in K : ~(given[a] < MINTER_ROYALTY_CAP)
            THEN [err |-> "RoyaltyCapExceeded", royalty |-> base]
        ELSE [err |-> "ok",
              royalty |-> [a \in Accounts |-> IF a \in K THEN given[a] ELSE base[a]]]

\* mint_royalty with the running total started at 0
mint_royalty_total_from_zero(perpetual_royalties) ==
    LET base == [NoRoyalty EXCEPT ![owner_id] = ADMIN_ROYALTY]
        given == perpetual_royalties.royalty
        K == RoyaltyKeys(given)
    IN  IF ~perpetual_royalties.some THEN [err |-> "ok", royalty |-> base]
        ELSE IF \E a \in K : ~(given[a] < MINTER_ROYALTY_CAP)
            THEN [err |-> "RoyaltyCapExceeded", royalty |-> base]
        ELSE IF ~(SumShares(given, K) <= MINTER_ROYALTY_CAP)
            THEN [err |-> "RoyaltyCapExceeded", royalty |-> base]
        ELSE [err |-> "ok",
              royalty |-> [a \in Accounts |-> IF a \in K THEN given[a] ELSE base[a]]]

mint_royalty(perpetual_royalties) ==
    LET base == [NoRoyalty EXCEPT ![owner_id] = ADMIN_ROYALTY]
        given == perpetual_royalties.royalty
        K == RoyaltyKeys(given)
        total_perpetual == ADMIN_ROYALTY + SumShares(given, K)
    IN  IF ~perpetual_royalties.some THEN [err |-> "ok", royalty |-> base]
        ELSE IF Cardinality(K) > MAX_PERPETUAL_ROYALTIES
            THEN [err |-> "TooManyRoyalties", royalty |-> base]
        ELSE IF \E a \in K : ~(given[a] < MINTER_ROYALTY_CAP)
            THEN [err |-> "RoyaltyCapExceeded", royalty |-> base]
        ELSE IF ~(total_perpetual <= MINTER_ROYALTY_CAP)
            THEN [err |-> "RoyaltyCapExceeded", royalty |-> base]
        ELSE [err |-> "ok",
              royalty |-> [a \in Accounts |-> IF a \in K THEN given[a] ELSE base[a]]]

\* internal_mint: the royalty schedule, then the owner, the royalty schedule, the
\* per-owner index, an empty approval map and the next approval id 1 (when the
\* contract keeps approvals), and the nft_mint event
internal_mint(c, token_owner_id, token_id, perpetual_royalties) ==
    LET roy == mint_royalty(perpetual_royalties)
        token_ids == c.tokens_per_owner[token_owner_id].ids \cup {token_id}
        c1 == [c EXCEPT
                 !.owner_by_id[token_id] = token_owner_id,
                 !.royalty_by_id[token_id] = [some |-> TRUE, royalty |-> roy.royalty],
                 !.tokens_per_owner[token_owner_id] = [some |-> TRUE, ids |-> token_ids],
                 !.approvals_by_id[token_id] =
                     IF c.approvals_enabled THEN SomeMap(NoApprovals) ELSE NoneMap,
                 !.next_approval_id_by_id[token_id] =
                     IF c.approvals_enabled THEN 1 ELSE 0]
    IN  IF roy.err # "ok" THEN Panic(c, roy.err)
        ELSE Ok(c1, <<NftMintEvent(token_owner_id, token_id)>>, <<>>, <<>>, "none")

(* ------------------------------------------------------------------ *)
(* mint.rs                                                              *)
(* ------------------------------------------------------------------ *)
\* nft_mint: a token id in use panics, otherwise internal_mint. The caller and
\* its deposit are not read.
nft_mint(c, token_id, receiver_id, perpetual_royalties) ==
    IF c.owner_by_id[token_id] # NoAccount THEN Panic(c, "TokenExists")
    ELSE internal_mint(c, receiver_id, token_id, perpetual_royalties)

(* ------------------------------------------------------------------ *)
(* utils.rs                                                             *)
(* ------------------------------------------------------------------ *)
\* bytes_for_approved_account_id: the same for every account id of the model
bytes_for_approved_account_id(account_id) == EntryBytes

\* refund_approved_account_ids_iter / refund_approved_account_ids: one transfer
\* to account_id for the storage of the given entries
refund_approved_account_ids(account_id, keys) ==
    [to |-> account_id, entries |-> Cardinality(keys)]

\* refund_deposit_to_account: FALSE when the deposit does not cover the storage
refund_deposit_ok(storage_used, deposit) == storage_used <= deposit

(* ------------------------------------------------------------------ *)
(* approval.rs                                                          *)
(* ------------------------------------------------------------------ *)
\* next_approval_id taken from the size of the token's approval map
next_approval_id_from_len(c, token_id) ==
    Cardinality(Keys(c.approvals_by_id[token_id].ids)) + 1

\* nft_approve, lines 78-80: the id the next approval of the token gets
next_approval_id(c, token_id) ==
    IF c.next_approval_id_by_id[token_id] = 0 THEN 1
    ELSE c.next_approval_id_by_id[token_id]

\* nft_approve without the unwrap of approvals_by_id
nft_approve_unchecked(c, predecessor, deposit, token_id, account_id, msg) ==
    LET owner == c.owner_by_id[token_id]
        approved_account_ids ==
            IF c.approvals_by_id[token_id].some
            THEN c.approvals_by_id[token_id].ids ELSE NoApprovals
        approval_id == next_approval_id(c, token_id)
        c1 == [c EXCEPT
                 !.approvals_by_id[token_id] =
                     SomeMap([approved_account_ids EXCEPT ![account_id] = approval_id]),
                 !.next_approval_id_by_id[token_id] = approval_id + 1]
    IN  IF ~assert_at_least_one_yocto(deposit) THEN Panic(c, "BadDeposit")
        ELSE IF owner = NoAccount THEN Panic(c, "NotFound")
        ELSE IF predecessor # owner THEN Panic(c, "Unauthorized")
        ELSE IF ~refund_deposit_ok(bytes_for_approved_account_id(account_id), deposit)
            THEN Panic(c, "InsufficientPayment")
        ELSE Ok(c1, <<>>, <<>>, <<>>, approval_id)

\* nft_approve keeping the id of a delegate that has one
nft_approve_keeps_old_id(c, predecessor, deposit, token_id, account_id, msg) ==
    LET owner == c.owner_by_id[token_id]
        approved_account_ids ==
            IF c.approvals_by_id[token_id].some
            THEN c.approvals_by_id[token_id].ids ELSE NoApprovals
        approval_id == next_approval_id(c, token_id)
        old_approval_id == approved_account_ids[account_id]
        c1 == [c EXCEPT
                 !.approvals_by_id[token_id] =
                     SomeMap([approved_account_ids EXCEPT ![account_id] =
                                 IF old_approval_id = 0 THEN approval_id
                                 ELSE old_approval_id]),
                 !.next_approval_id_by_id[token_id] = approval_id + 1]
        storage_used == IF old_approval_id = 0
                        THEN bytes_for_approved_account_id(account_id) ELSE 0
        refund == deposit - storage_used
    IN  IF ~assert_at_least_one_yocto(deposit) THEN Panic(c, "BadDeposit")
        ELSE IF ~c.approvals_enabled THEN Panic(c, "CapabilityDisabled")
        ELSE IF owner = NoAccount THEN Panic(c, "NotFound")
        ELSE IF predecessor # owner THEN Panic(c, "Unauthorized")
        ELSE IF ~refund_deposit_ok(storage_used, deposit)
            THEN Panic(c, "InsufficientPayment")
        ELSE Ok(c1, <<>>, <<>>,
                IF refund > 1 THEN <<[to |-> predecessor, yocto |-> refund]>> ELSE <<>>,
                approval_id)

\* nft_approve. msg is a BOOLEAN: whether a message for nft_on_approve is given.
nft_approve(c, predecessor, deposit, token_id, account_id, msg) ==
    LET owner == c.owner_by_id[token_id]
        approved_account_ids ==
            IF c.approvals_by_id[token_id].some
            THEN c.approvals_by_id[token_id].ids ELSE NoApprovals
        approval_id == next_approval_id(c, token_id)
        old_approval_id == approved_account_ids[account_id]
        c1 == [c EXCEPT
                 !.approvals_by_id[token_id] =
                     SomeMap([approved_account_ids EXCEPT ![account_id] = approval_id]),
                 !.next_approval_id_by_id[token_id] = approval_id + 1]
        storage_used == IF old_approval_id = 0
                        THEN bytes_for_approved_account_id(account_id) ELSE 0
        refund == deposit - storage_used
    IN  IF ~assert_at_least_one_yocto(deposit) THEN Panic(c, "BadDeposit")
        ELSE IF ~c.approvals_enabled THEN Panic(c, "CapabilityDisabled")
        ELSE IF owner = NoAccount THEN Panic(c, "NotFound")
        ELSE IF predecessor # owner THEN Panic(c, "Unauthorized")
        ELSE IF ~refund_deposit_ok(storage_used, deposit)
            THEN Panic(c, "InsufficientPayment")
        ELSE Ok(c1, <<>>,
                IF msg THEN <<[kind |-> "nft_on_approve", to |-> account_id,
                               token_id |-> token_id, owner_id |-> owner,
                               approval_id |-> approval_id]>>
                ELSE <<>>,
                IF refund > 1 THEN <<[to |-> predecessor, yocto |-> refund]>> ELSE <<>>,
                approval_id)

\* nft_is_approved (a view). approval_id 0 is None. ret is the boolean.
nft_is_approved(c, token_id, approved_account_id, approval_id) ==
    LET m == c.approvals_by_id[token_id]
        actual_approval_id == m.ids[approved_account_id]
    IN  IF c.owner_by_id[token_id] = NoAccount THEN Panic(c, "NotFound")
        ELSE IF ~c.approvals_enabled THEN Ok(c, <<>>, <<>>, <<>>, FALSE)
        ELSE IF ~m.some THEN Ok(c, <<>>, <<>>, <<>>, FALSE)
        ELSE IF actual_approval_id = 0 THEN Ok(c, <<>>, <<>>, <<>>, FALSE)
        ELSE IF approval_id # 0
            THEN Ok(c, <<>>, <<>>, <<>>, approval_id = actual_approval_id)
        ELSE Ok(c, <<>>, <<>>, <<>>, TRUE)

\* nft_revoke removing the whole approval map of the token
nft_revoke_drops_map(c, predecessor, deposit, token_id, account_id) ==
    LET owner == c.owner_by_id[token_id]
        m == c.approvals_by_id[token_id]
        c1 == [c EXCEPT !.approvals_by_id[token_id] = NoneMap]
    IN  IF ~assert_one_yocto(deposit) THEN Panic(c, "BadDeposit")
        ELSE IF ~c.approvals_enabled THEN Panic(c, "CapabilityDisabled")
        ELSE IF owner = NoAccount THEN Panic(c, "NotFound")
        ELSE IF predecessor # owner THEN Panic(c, "Unauthorized")
        ELSE IF m.some /\ m.ids[account_id] # 0
            THEN Ok(c1, <<>>, <<>>,
                    <<refund_approved_account_ids(predecessor, {account_id})>>, "none")
        ELSE Ok(c, <<>>, <<>>, <<>>, "none")

\* nft_revoke without the require! on the predecessor
nft_revoke_any_caller(c, predecessor, deposit, token_id, account_id) ==
    LET owner == c.owner_by_id[token_id]
        m == c.approvals_by_id[token_id]
        rest == [m.ids EXCEPT ![account_id] = 0]
        c1 == [c EXCEPT !.approvals_by_id[token_id] =
                 IF Keys(rest) = {} THEN NoneMap ELSE SomeMap(rest)]
    IN  IF ~assert_one_yocto(deposit) THEN Panic(c, "BadDeposit")
        ELSE IF ~c.approvals_enabled THEN Panic(c, "CapabilityDisabled")
        ELSE IF owner = NoAccount THEN Panic(c, "NotFound")
        ELSE IF m.some /\ m.ids[account_id] # 0
            THEN Ok(c1, <<>>, <<>>,
                    <<refund_approved_account_ids(predecessor, {account_id})>>, "none")
        ELSE Ok(c, <<>>, <<>>, <<>>, "none")

\* nft_revoke
nft_revoke(c, predecessor, deposit, token_id, account_id) ==
    LET owner == c.owner_by_id[token_id]
        m == c.approvals_by_id[token_id]
        rest == [m.ids EXCEPT ![account_id] = 0]
        c1 == [c EXCEPT !.approvals_by_id[token_id] =
                 IF Keys(rest) = {} THEN NoneMap ELSE SomeMap(rest)]
    IN  IF ~assert_one_yocto(deposit) THEN Panic(c, "BadDeposit")
        ELSE IF ~c.approvals_enabled THEN Panic(c, "CapabilityDisabled")
        ELSE IF owner = NoAccount THEN Panic(c, "NotFound")
        ELSE IF predecessor # owner THEN Panic(c, "Unauthorized")
        ELSE IF m.some /\ m.ids[account_id] # 0
            THEN Ok(c1, <<>>, <<>>,
                    <<refund_approved_account_ids(predecessor, {account_id})>>, "none")
        ELSE Ok(c, <<>>, <<>>, <<>>, "none")

\* nft_revoke_all without the removal of the token's approval map
nft_revoke_all_keeps_map(c, predecessor, deposit, token_id) ==
    IF ~assert_one_yocto(deposit) THEN Panic(c, "BadDeposit")
    ELSE IF c.owner_by_id[token_id] = NoAccount THEN Panic(c, "NotFound")
    ELSE IF predecessor # c.owner_by_id[token_id] THEN Panic(c, "Unauthorized")
    ELSE Ok(c, <<>>, <<>>, <<>>, "none")

\* nft_revoke_all
nft_revoke_all(c, predecessor, deposit, token_id) ==
    LET owner == c.owner_by_id[token_id]
        m == c.approvals_by_id[token_id]
        c1 == [c EXCEPT !.approvals_by_id[token_id] = NoneMap]
    IN  IF ~assert_one_yocto(deposit) THEN Panic(c, "BadDeposit")
        ELSE IF ~c.approvals_enabled THEN Panic(c, "CapabilityDisabled")
        ELSE IF owner = NoAccount THEN Panic(c, "NotFound")
        ELSE IF predecessor # owner THEN Panic(c, "Unauthorized")
        ELSE IF m.some
            THEN Ok(c1, <<>>, <<>>,
                    <<refund_approved_account_ids(predecessor, Keys(m.ids))>>, "none")
        ELSE Ok(c, <<>>, <<>>, <<>>, "none")

(* ------------------------------------------------------------------ *)
(* nft_core.rs                                                          *)
(* ------------------------------------------------------------------ *)
\* nft_transfer
nft_transfer(c, predecessor, deposit, receiver_id, token_id, approval_id) ==
    IF ~assert_one_yocto(deposit) THEN Panic(c, "BadDeposit")
    ELSE internal_transfer(c, predecessor, receiver_id, token_id, approval_id)

\* transfer_call_promises with no chain scheduled
transfer_call_promises_none(sender_id, old_owner, receiver_id, token_id, old_approvals) ==
    <<>>

\* nft_transfer_call, lines 115-122: the promise chain
\* nft_on_transfer(..).then(nft_resolve_transfer(old_owner, receiver_id,
\* token_id, old_approvals))
transfer_call_promises(sender_id, old_owner, receiver_id, token_id, old_approvals) ==
    <<[kind |-> "nft_on_transfer", to |-> receiver_id, sender_id |-> sender_id,
       previous_owner_id |-> old_owner, receiver_id |-> receiver_id,
       token_id |-> token_id, approved_account_ids |-> old_approvals]>>

\* nft_transfer_call. gas_ok: prepaid_gas > GAS_FOR_NFT_TRANSFER_CALL
nft_transfer_call(c, predecessor, deposit, gas_ok, receiver_id, token_id, approval_id) ==
    LET tr == internal_transfer(c, predecessor, receiver_id, token_id, approval_id)
    IN  IF ~assert_one_yocto(deposit) THEN Panic(c, "BadDeposit")
        ELSE IF ~gas_ok THEN Panic(c, "MoreGasRequired")
        ELSE IF tr.err # "ok" THEN tr
        ELSE Ok(tr.c, tr.events,
                transfer_call_promises(predecessor, tr.ret.owner_id, receiver_id,
                                       token_id, tr.ret.approved_account_ids),
                <<>>, "promise")

\* the payloads a receiver's nft_on_transfer returns in this model
Payloads == {"true", "false", "null"}
\* serde_json::from_slice::<bool>: the JSON literals true and false decode,
\* nothing else does
from_slice_bool(value) ==
    IF value = "true" THEN [ok |-> TRUE, value |-> TRUE]
    ELSE IF value = "false" THEN [ok |-> TRUE, value |-> FALSE]
    ELSE [ok |-> FALSE, value |-> FALSE]

\* env::promise_result(0)
PromiseResults ==
    {[status |-> "NotReady", value |-> "null"], [status |-> "Failed", value |-> "null"]}
    \cup {[status |-> "Successful", value |-> v] : v \in Payloads}
Settled == {o \in PromiseResults : o.status # "NotReady"}

\* must_revert with the decoded boolean negated
must_revert_negated(result) ==
    IF result.status = "Successful"
    THEN IF from_slice_bool(result.value).ok
         THEN ~from_slice_bool(result.value).value
         ELSE FALSE
    ELSE TRUE

\* nft_resolve_transfer, lines 151-167: must_revert of a settled result
must_revert(result) ==
    IF result.status = "Successful"
    THEN IF from_slice_bool(result.value).ok
         THEN from_slice_bool(result.value).value
         ELSE TRUE
    ELSE TRUE

\* transfer_is_final answering that the receiver still owns the token
transfer_is_final_never(current_owner, receiver_id) == FALSE

\* transfer_is_final without the comparison of the owner with the receiver
transfer_is_final_burned_only(current_owner, receiver_id) ==
    current_owner = NoAccount

\* nft_resolve_transfer, lines 171-184: whether the rollback is given up: the
\* token has another owner than the receiver, or no owner
transfer_is_final(current_owner, receiver_id) ==
    current_owner = NoAccount \/ current_owner # receiver_id

\* nft_resolve_transfer, lines 190-198: the approval map of the token after a
\* rollback, from the map found (the receiver's) and the argument
restored_approvals(receiver_approvals, approved_account_ids) ==
    IF approved_account_ids.some THEN approved_account_ids ELSE receiver_approvals

\* burned_refunds without the refund
burned_refunds_none(previous_owner_id, approved_account_ids) == <<>>

\* nft_resolve_transfer, lines 177-184: the refund issued when the token has no
\* owner: the storage of the entries of the approved_account_ids argument, to
\* previous_owner_id
burned_refunds(previous_owner_id, approved_account_ids) ==
    IF approved_account_ids.some
    THEN <<refund_approved_account_ids(previous_owner_id, Keys(approved_account_ids.ids))>>
    ELSE <<>>

\* nft_resolve_transfer; ret is the boolean it returns
nft_resolve_transfer(c, result, previous_owner_id, receiver_id, token_id, approved_account_ids) ==
    LET current_owner == c.owner_by_id[token_id]
        moved == internal_transfer_unguarded(c, token_id, receiver_id, previous_owner_id)
        receiver_approvals == moved.c.approvals_by_id[token_id]
        c2 == IF c.approvals_enabled
              THEN [moved.c EXCEPT !.approvals_by_id[token_id] =
                       restored_approvals(receiver_approvals, approved_account_ids)]
              ELSE moved.c
        refunds == IF c.approvals_enabled /\ receiver_approvals.some
                   THEN <<refund_approved_account_ids(receiver_id,
                                                      Keys(receiver_approvals.ids))>>
                   ELSE <<>>
    IN  IF result.status = "NotReady" THEN Panic(c, "Abort")
        ELSE IF ~must_revert(result) THEN Ok(c, <<>>, <<>>, <<>>, TRUE)
        ELSE IF transfer_is_final(current_owner, receiver_id)
                /\ current_owner # NoAccount
            THEN Ok(c, <<>>, <<>>, <<>>, TRUE)
        ELSE IF transfer_is_final(current_owner, receiver_id)
            THEN Ok(c, <<>>, <<>>,
                    burned_refunds(previous_owner_id, approved_account_ids), TRUE)
        ELSE IF ~moved.ok THEN Panic(c, "Panic")
        ELSE Ok(c2,
                <<NftTransferEvent(receiver_id, previous_owner_id, token_id, NoAccount)>>,
                <<>>, refunds, FALSE)

(* ------------------------------------------------------------------ *)
(* royalty.rs                                                           *)
(* ------------------------------------------------------------------ *)
\* payout_of with the absorber's own entry counted in the accumulated shares
payout_of_counts_absorber(royalty, absorber, balance) ==
    LET total_perpetual == SumShares(royalty, RoyaltyKeys(royalty))
    IN  [total_perpetual |-> total_perpetual,
         payout |-> [a \in Accounts |->
                        IF a = absorber
                        THEN royalty_to_payout(10000 - total_perpetual, balance)
                        ELSE IF a \in RoyaltyKeys(royalty)
                            THEN royalty_to_payout(royalty[a], balance)
                        ELSE -1]]

\* the loops of nft_payout and nft_transfer_payout: the payout of every account
\* of the schedule but `absorber`, and the absorber's remainder share
payout_of(royalty, absorber, balance) ==
    LET others == RoyaltyKeys(royalty) \ {absorber}
        total_perpetual == SumShares(royalty, others)
    IN  [total_perpetual |-> total_perpetual,
         payout |-> [a \in Accounts |->
                        IF a = absorber
                        THEN royalty_to_payout(10000 - total_perpetual, balance)
                        ELSE IF a \in others THEN royalty_to_payout(royalty[a], balance)
                        ELSE -1]]

\* nft_payout with the assert on the number of entries of the payout
nft_payout_counts_payout(c, token_id, balance, max_len_payout) ==
    LET owner == c.owner_by_id[token_id]
        royalty == c.royalty_by_id[token_id].royalty
    IN  IF owner = NoAccount THEN Panic(c, "NotFound")
        ELSE IF ~(Cardinality(RoyaltyKeys(royalty) \cup {owner}) <= max_len_payout)
            THEN Panic(c, "TooManyRoyalties")
        ELSE Ok(c, <<>>, <<>>, <<>>, payout_of(royalty, owner, balance).payout)

\* nft_payout (a view); ret is the payout, -1 for an account without entry
nft_payout(c, token_id, balance, max_len_payout) ==
    LET owner == c.owner_by_id[token_id]
        royalty == c.royalty_by_id[token_id].royalty
    IN  IF owner = NoAccount THEN Panic(c, "NotFound")
        ELSE IF ~(Cardinality(RoyaltyKeys(royalty)) <= max_len_payout)
            THEN Panic(c, "TooManyRoyalties")
        ELSE Ok(c, <<>>, <<>>, <<>>, payout_of(royalty, owner, balance).payout)

\* nft_transfer_payout with its asserts after the transfer returning an error
\* instead of panicking: the transfer stays
nft_transfer_payout_keeps_transfer(c, predecessor, deposit, receiver_id, token_id, approval_id, balance, max_len_payout) ==
    LET royalty == c.royalty_by_id[token_id].royalty
        tr == internal_transfer(c, predecessor, receiver_id, token_id, approval_id)
        p == payout_of(royalty, tr.ret.owner_id, balance)
    IN  IF ~assert_one_yocto(deposit) THEN Panic(c, "BadDeposit")
        ELSE IF ~c.royalty_by_id[token_id].some THEN Panic(c, "NotFound")
        ELSE IF tr.err # "ok" THEN tr
        ELSE IF balance = -1 THEN Ok(tr.c, tr.events, <<>>, <<>>, "none")
        ELSE IF max_len_payout = -1 THEN Panic(tr.c, "Panic")
        ELSE IF ~(Cardinality(RoyaltyKeys(royalty)) <= max_len_payout)
            THEN Panic(tr.c, "TooManyRoyalties")
        ELSE IF ~(p.total_perpetual <= MINTER_ROYALTY_CAP)
            THEN Panic(tr.c, "RoyaltyCapExceeded")
        ELSE Ok(tr.c, tr.events, <<>>, <<>>, p.payout)

\* nft_transfer_payout with the receiver as the absorber of the payout
nft_transfer_payout_receiver_absorbs(c, predecessor, deposit, receiver_id, token_id, approval_id, balance, max_len_payout) ==
    LET royalty == c.royalty_by_id[token_id].royalty
        tr == internal_transfer(c, predecessor, receiver_id, token_id, approval_id)
        p == payout_of(royalty, receiver_id, balance)
    IN  IF ~assert_one_yocto(deposit) THEN Panic(c, "BadDeposit")
        ELSE IF ~c.royalty_by_id[token_id].some THEN Panic(c, "NotFound")
        ELSE IF tr.err # "ok" THEN tr
        ELSE IF balance = -1 THEN Ok(tr.c, tr.events, <<>>, <<>>, "none")
        ELSE IF max_len_payout = -1 THEN Panic(c, "Panic")
        ELSE IF ~(Cardinality(RoyaltyKeys(royalty)) <= max_len_payout)
            THEN Panic(c, "TooManyRoyalties")
        ELSE IF ~(p.total_perpetual <= MINTER_ROYALTY_CAP)
            THEN Panic(c, "RoyaltyCapExceeded")
        ELSE Ok(tr.c, tr.events, <<>>, <<>>, p.payout)

\* nft_transfer_payout. balance and max_len_payout are Options: -1 is None.
nft_transfer_payout(c, predecessor, deposit, receiver_id, token_id, approval_id, balance, max_len_payout) ==
    LET royalty == c.royalty_by_id[token_id].royalty
        tr == internal_transfer(c, predecessor, receiver_id, token_id, approval_id)
        p == payout_of(royalty, tr.ret.owner_id, balance)
    IN  IF ~assert_one_yocto(deposit) THEN Panic(c, "BadDeposit")
        ELSE IF ~c.royalty_by_id[token_id].some THEN Panic(c, "NotFound")
        ELSE IF tr.err # "ok" THEN tr
        ELSE IF balance = -1 THEN Ok(tr.c, tr.events, <<>>, <<>>, "none")
        ELSE IF max_len_payout = -1 THEN Panic(c, "Panic")
        ELSE IF ~(Cardinality(RoyaltyKeys(royalty)) <= max_len_payout)
            THEN Panic(c, "TooManyRoyalties")
        ELSE IF ~(p.total_perpetual <= MINTER_ROYALTY_CAP)
            THEN Panic(c, "RoyaltyCapExceeded")
        ELSE Ok(tr.c, tr.events, <<>>, <<>>, p.payout)

(* ------------------------------------------------------------------ *)
(* lib.rs                                                               *)
(* ------------------------------------------------------------------ *)
\* allow_minting_access: assert_eq!(predecessor, owner_id), allow_list.insert
allow_minting_access(c, predecessor, account_id) ==
    IF predecessor # owner_id THEN Panic(c, "Unauthorized")
    ELSE Ok([c EXCEPT !.allow_list = @ \cup {account_id}], <<>>, <<>>, <<>>, "none")

\* revoke_minting_access: assert_eq!(predecessor, owner_id), allow_list.remove
revoke_minting_access(c, predecessor, account_id) ==
    IF predecessor # owner_id THEN Panic(c, "Unauthorized")
    ELSE Ok([c EXCEPT !.allow_list = @ \ {account_id}], <<>>, <<>>, <<>>, "none")

(* ------------------------------------------------------------------ *)
(* The state machine: one step is one receipt executed by the host       *)
(* ------------------------------------------------------------------ *)
NoBy == [a \in Accounts |-> NoAccount]
NoChain ==
    [phase |-> "unused", previous_owner_id |-> NoAccount,
     receiver_id |-> NoAccount, token_id |-> NoToken,
     approved_account_ids |-> NoneMap, by |-> NoBy]
DoneChain == [NoChain EXCEPT !.phase = "resolved"]
Chains == 1 .. MaxCalls

NoResult == [status |-> "none", value |-> "null"]
\* what `last` records of the receipt executed by the last step: the method, the
\* token, the error kind ("ok" when it returned), the events it logged and the
\* number of promises it scheduled and, when it returned, the caller and the
\* receiver (or delegate) it named
Call(op, predecessor, token_id, receiver_id, r) ==
    [op |-> op, token_id |-> token_id, err |-> r.err,
     predecessor |-> IF r.err = "ok" THEN predecessor ELSE NoAccount,
     receiver_id |-> IF r.err = "ok" THEN receiver_id ELSE NoAccount,
     events |-> r.events, scheduled |-> Len(r.promises),
     chain |-> 0, result |-> NoResult, returned |-> "none"]

\* the contract state after a call with result r
Store(r) ==
    /\ owner_by_id' = r.c.owner_by_id
    /\ tokens_per_owner' = r.c.tokens_per_owner
    /\ approvals_by_id' = r.c.approvals_by_id
    /\ next_approval_id_by_id' = r.c.next_approval_id_by_id
    /\ royalty_by_id' = r.c.royalty_by_id
    /\ approvals_enabled' = r.c.approvals_enabled
    /\ allow_list' = r.c.allow_list

(* The arguments the calls are explored with. A method that first asserts its  *)
(* deposit (or its gas) is called with every combination of the other          *)
(* arguments under the deposit it accepts, and once under one it rejects.      *)
NoRoyalties == [some |-> FALSE, royalty |-> NoRoyalty]
MintArgs(T) ==
    [token_id : T, receiver_id : Accounts,
     perpetual_royalties :
        {NoRoyalties, [some |-> TRUE, royalty |-> [NoRoyalty EXCEPT !["aa"] = 6900]]}]
\* one yocto covers a delegate that has an entry, EntryBytes a new entry; the
\* message for nft_on_approve changes no state and is tried on one delegate
ApproveArgs(T) ==
    [predecessor : Accounts, deposit : {ONE_YOCTO, EntryBytes}, token_id : T,
     account_id : Accounts, msg : {FALSE}]
    \cup [predecessor : Accounts, deposit : {EntryBytes}, token_id : T,
          account_id : {owner_id}, msg : {TRUE}]
    \cup [predecessor : {owner_id}, deposit : {0}, token_id : T,
          account_id : {owner_id}, msg : {FALSE}]
RevokeArgs(T) ==
    [predecessor : Accounts, deposit : {ONE_YOCTO}, token_id : T, account_id : Accounts]
    \cup [predecessor : {owner_id}, deposit : {0}, token_id : T, account_id : {owner_id}]
RevokeAllArgs(T) ==
    [predecessor : Accounts, deposit : {ONE_YOCTO}, token_id : T]
    \cup [predecessor : {owner_id}, deposit : {0}, token_id : T]
\* Option<u64> approval_id arguments: None (0), and the first two ids
ApprovalArgs == {0, 1, 2}
TransferArgs(T) ==
    [predecessor : Accounts, deposit : {ONE_YOCTO}, gas_ok : {TRUE},
     receiver_id : Accounts, token_id : T, approval_id : ApprovalArgs]
    \cup [predecessor : {owner_id}, deposit : {0}, gas_ok : {TRUE},
          receiver_id : {owner_id}, token_id : T, approval_id : {0}]
TransferCallArgs(T) ==
    [predecessor : Accounts, deposit : {ONE_YOCTO}, gas_ok : {TRUE},
     receiver_id : Accounts, token_id : T, approval_id : {0, 1}]
    \cup [predecessor : {owner_id}, deposit : {0, ONE_YOCTO}, gas_ok : {FALSE},
          receiver_id : {owner_id}, token_id : T, approval_id : {0}]
\* balance and max_len_payout (-1 = None): no balance; a balance with a bound
\* at the size of the schedule, below it, and without a bound
TransferPayoutArgs(T) ==
    [predecessor : Accounts, deposit : {ONE_YOCTO}, receiver_id : Accounts,
     token_id : T, approval_id : {0}, balance : {-1, 10000}, max_len_payout : {1}]
    \cup [predecessor : Accounts, deposit : {ONE_YOCTO}, receiver_id : {"aa"},
          token_id : T, approval_id : {1}, balance : {10000}, max_len_payout : {0, -1}]
    \cup [predecessor : {owner_id}, deposit : {0}, receiver_id : {"aa"},
          token_id : T, approval_id : {0}, balance : {10000}, max_len_payout : {1}]

Init ==
    /\ owner_by_id = [t \in Tokens |-> NoAccount]
    /\ tokens_per_owner = [a \in Accounts |-> NoSet]
    /\ approvals_by_id = [t \in Tokens |-> NoneMap]
    /\ next_approval_id_by_id = [t \in Tokens |-> 0]
    /\ royalty_by_id = [t \in Tokens |-> NoRoyalties]
    /\ approvals_enabled = TRUE
    /\ allow_list = {}
    /\ pending = [i \in Chains |-> NoChain]
    /\ nCalls = 0
    /\ last = [op |-> "new", token_id |-> NoToken, err |-> "ok",
               predecessor |-> NoAccount, receiver_id |-> NoAccount,
               events |-> <<>>, scheduled |-> 0,
               chain |-> 0, result |-> NoResult, returned |-> "none"]
    /\ approvedBy = [t \in Tokens |-> NoBy]
    /\ idLog = [t \in Tokens |-> <<>>]

NftMint(T) ==
    \E x \in MintArgs(T) :
        LET r == nft_mint(Self, x.token_id, x.receiver_id, x.perpetual_royalties) IN
        /\ Store(r)
        /\ last' = Call("nft_mint", NoAccount, x.token_id, x.receiver_id, r)
        /\ UNCHANGED <<pending, nCalls, approvedBy, idLog>>

NftApprove(T) ==
    \E x \in ApproveArgs(T) :
        LET r == nft_approve(Self, x.predecessor, x.deposit, x.token_id, x.account_id,
                             x.msg) IN
        /\ Len(idLog[x.token_id]) < MaxApprovals
        /\ Store(r)
        /\ last' = Call("nft_approve", x.predecessor, x.token_id, x.account_id, r)
        /\ approvedBy' = IF r.err = "ok"
                         THEN [approvedBy EXCEPT ![x.token_id][x.account_id] = x.predecessor]
                         ELSE approvedBy
        /\ idLog' = IF r.err = "ok"
                    THEN [idLog EXCEPT ![x.token_id] = Append(@, r.ret)]
                    ELSE idLog
        /\ UNCHANGED <<pending, nCalls>>

NftRevoke(T) ==
    \E x \in RevokeArgs(T) :
        LET r == nft_revoke(Self, x.predecessor, x.deposit, x.token_id, x.account_id) IN
        /\ Store(r)
        /\ last' = Call("nft_revoke", x.predecessor, x.token_id, x.account_id, r)
        /\ approvedBy' = IF r.err = "ok"
                         THEN [approvedBy EXCEPT ![x.token_id][x.account_id] = NoAccount]
                         ELSE approvedBy
        /\ UNCHANGED <<pending, nCalls, idLog>>

NftRevokeAll(T) ==
    \E x \in RevokeAllArgs(T) :
        LET r == nft_revoke_all(Self, x.predecessor, x.deposit, x.token_id) IN
        /\ Store(r)
        /\ last' = Call("nft_revoke_all", x.predecessor, x.token_id, NoAccount, r)
        /\ approvedBy' = IF r.err = "ok"
                         THEN [approvedBy EXCEPT ![x.token_id] = NoBy]
                         ELSE approvedBy
        /\ UNCHANGED <<pending, nCalls, idLog>>

NftTransfer(T) ==
    \E x \in TransferArgs(T) :
        LET r == nft_transfer(Self, x.predecessor, x.deposit, x.receiver_id, x.token_id,
                              x.approval_id) IN
        /\ Store(r)
        /\ last' = Call("nft_transfer", x.predecessor, x.token_id, x.receiver_id, r)
        /\ approvedBy' = IF r.err = "ok"
                         THEN [approvedBy EXCEPT ![x.token_id] = NoBy]
                         ELSE approvedBy
        /\ UNCHANGED <<pending, nCalls, idLog>>

NftTransferPayout(T) ==
    \E x \in TransferPayoutArgs(T) :
        LET r == nft_transfer_payout(Self, x.predecessor, x.deposit, x.receiver_id,
                                     x.token_id, x.approval_id, x.balance,
                                     x.max_len_payout) IN
        /\ Store(r)
        /\ last' = Call("nft_transfer_payout", x.predecessor, x.token_id, x.receiver_id, r)
        /\ approvedBy' = IF r.err = "ok"
                         THEN [approvedBy EXCEPT ![x.token_id] = NoBy]
                         ELSE approvedBy
        /\ UNCHANGED <<pending, nCalls, idLog>>

\* the chains a call scheduled, put in the slots after the ones in use; `by` is
\* the history of the approval map the chain carries
Scheduled(promises, by) ==
    [i \in Chains |->
        IF i > nCalls /\ i <= nCalls + Len(promises)
        THEN [phase |-> "pending",
              previous_owner_id |-> promises[i - nCalls].previous_owner_id,
              receiver_id |-> promises[i - nCalls].receiver_id,
              token_id |-> promises[i - nCalls].token_id,
              approved_account_ids |-> promises[i - nCalls].approved_account_ids,
              by |-> by]
        ELSE pending[i]]

NftTransferCall(T) ==
    \E x \in TransferCallArgs(T) :
        LET r == nft_transfer_call(Self, x.predecessor, x.deposit, x.gas_ok,
                                   x.receiver_id, x.token_id, x.approval_id) IN
        /\ nCalls < MaxCalls
        /\ Store(r)
        /\ last' = Call("nft_transfer_call", x.predecessor, x.token_id, x.receiver_id, r)
        /\ pending' = Scheduled(r.promises, approvedBy[x.token_id])
        /\ nCalls' = nCalls + Len(r.promises)
        /\ approvedBy' = IF r.err = "ok"
                         THEN [approvedBy EXCEPT ![x.token_id] = NoBy]
                         ELSE approvedBy
        /\ UNCHANGED idLog

\* The host settles the nft_on_transfer receipt of a chain and runs the chain's
\* callback with its result, once. What the receiver and the other accounts did
\* while the chain was pending are the steps taken in between.
ResolveTransfer ==
    \E i \in Chains, result \in Settled :
        LET p == pending[i]
            r == nft_resolve_transfer(Self, result, p.previous_owner_id, p.receiver_id,
                                      p.token_id, p.approved_account_ids) IN
        /\ p.phase = "pending"
        /\ Store(r)
        /\ last' = [Call("nft_resolve_transfer", p.previous_owner_id, p.token_id,
                         p.receiver_id, r)
                    EXCEPT !.chain = i, !.result = result,
                           !.returned = IF r.err # "ok" THEN "none"
                                        ELSE IF r.ret THEN "true" ELSE "false"]
        /\ pending' = [pending EXCEPT ![i] = DoneChain]
        /\ approvedBy' =
              IF r.err = "ok" /\ r.ret = FALSE /\ p.approved_account_ids.some
              THEN [approvedBy EXCEPT ![p.token_id] = p.by]
              ELSE approvedBy
        /\ UNCHANGED <<nCalls, idLog>>

Next ==
    \/ NftMint(CoreTokens)
    \/ NftApprove(CoreTokens)
    \/ NftRevoke(CoreTokens)
    \/ NftRevokeAll(CoreTokens)
    \/ NftTransfer(CoreTokens)
    \/ NftTransferPayout(CoreTokens)
    \/ NftTransferCall(CoreTokens)
    \/ ResolveTransfer

Spec == Init /\ [][Next]_vars

\* the host runs the callback of every chain whose notification settled
LiveSpec == Spec /\ WF_vars(ResolveTransfer)

(* ------------------------------------------------------------------ *)
(* The contract without Approval Management: a stored Contract whose     *)
(* approvals_by_id and next_approval_id_by_id are None, the case every   *)
(* handler of approval.rs tests first. Contract::new stores Some(..).    *)
(* ------------------------------------------------------------------ *)
DisabledInit ==
    /\ owner_by_id = [t \in Tokens |-> NoAccount]
    /\ tokens_per_owner = [a \in Accounts |-> NoSet]
    /\ approvals_by_id = [t \in Tokens |-> NoneMap]
    /\ next_approval_id_by_id = [t \in Tokens |-> 0]
    /\ royalty_by_id = [t \in Tokens |-> NoRoyalties]
    /\ approvals_enabled = FALSE
    /\ allow_list = {}
    /\ pending = [i \in Chains |-> NoChain]
    /\ nCalls = 0
    /\ last = [op |-> "new", token_id |-> NoToken, err |-> "ok",
               predecessor |-> NoAccount, receiver_id |-> NoAccount,
               events |-> <<>>, scheduled |-> 0,
               chain |-> 0, result |-> NoResult, returned |-> "none"]
    /\ approvedBy = [t \in Tokens |-> NoBy]
    /\ idLog = [t \in Tokens |-> <<>>]

DisabledSpec == DisabledInit /\ [][Next]_vars

\* the contract with and without Approval Management
AnyInit == Init \/ DisabledInit
AnyRegistrySpec == AnyInit /\ [][Next]_vars

(* ------------------------------------------------------------------ *)
(* The state machine of the royalties: mints with royalty maps, the view *)
(* nft_payout, nft_transfer_payout with a balance, and the transfers and *)
(* rollbacks that change the owner of a token with a schedule            *)
(* ------------------------------------------------------------------ *)
Shares(aa, bb, cc) == [some |-> TRUE, royalty |-> [aa |-> aa, bb |-> bb, cc |-> cc]]
\* Option<HashMap<AccountId, u32>> of nft_mint: None; maps with one creator, with
\* the contract owner (with 0, with a share, with the largest share the total
\* admits), with one and with two creators reaching the cap, and maps over the
\* cap by one share and by the total
RoyaltyMaps ==
    {NoRoyalties,
     Shares(1000, -1, -1), Shares(-1, -1, 0), Shares(-1, -1, 1000),
     Shares(-1, -1, 6850), Shares(-1, 6850, -1), Shares(3000, 3850, -1),
     Shares(6900, -1, -1), Shares(-1, 7000, -1), Shares(3000, 3851, -1)}
\* balances of a payout: 0, balances the shares do not divide, and a multiple
\* of 10000
Balances == {0, 1, 3, 9999, 20000}
\* max_len_payout: below, at and above the sizes of the schedules
PayoutLens == {0, 1, 2, 3, 4}

\* what `last` records of a call on the royalties: the method, the token, the
\* error kind, the value returned and the arguments
RoyaltyCall(op, token_id, r, args) ==
    [op |-> op, token_id |-> token_id, err |-> r.err, returned |-> r.ret,
     args |-> args]

MintRoyalties ==
    \E token_id \in CoreTokens, receiver_id \in Accounts,
       perpetual_royalties \in RoyaltyMaps :
        LET r == nft_mint(Self, token_id, receiver_id, perpetual_royalties) IN
        /\ Store(r)
        /\ last' = RoyaltyCall("nft_mint", token_id, r,
                               [receiver_id |-> receiver_id,
                                perpetual_royalties |-> perpetual_royalties])
        /\ UNCHANGED <<pending, nCalls, approvedBy, idLog>>

NftPayout ==
    \E token_id \in CoreTokens, balance \in Balances, max_len_payout \in PayoutLens :
        LET r == nft_payout(Self, token_id, balance, max_len_payout) IN
        /\ Store(r)
        /\ last' = RoyaltyCall("nft_payout", token_id, r,
                               [balance |-> balance, max_len_payout |-> max_len_payout])
        /\ UNCHANGED <<pending, nCalls, approvedBy, idLog>>

TransferPayout ==
    \E token_id \in CoreTokens, predecessor \in Accounts, receiver_id \in Accounts,
       balance \in Balances, max_len_payout \in {1, 3} :
        LET r == nft_transfer_payout(Self, predecessor, ONE_YOCTO, receiver_id,
                                     token_id, 0, balance, max_len_payout) IN
        /\ Store(r)
        /\ last' = RoyaltyCall("nft_transfer_payout", token_id, r,
                               [previous_owner_id |-> owner_by_id[token_id],
                                receiver_id |-> receiver_id, balance |-> balance,
                                max_len_payout |-> max_len_payout])
        /\ UNCHANGED <<pending, nCalls, approvedBy, idLog>>

RoyaltyNext ==
    \/ MintRoyalties
    \/ NftPayout
    \/ TransferPayout
    \/ NftTransferCall(CoreTokens)
    \/ ResolveTransfer

RoyaltySpec == Init /\ [][RoyaltyNext]_vars

(* ------------------------------------------------------------------ *)
(* The state machine of the receipts: the calls of Spec on one token,   *)
(* with `last` holding the whole receipt - its arguments, the storage    *)
(* refunds it issued and the id it returned - and each pending chain     *)
(* recording whether its receiver transferred the token away             *)
(* ------------------------------------------------------------------ *)
\* a chain of this machine: the chain of Spec and the history `moved`
OpenChain(chain, moved) == chain @@ [moved |-> moved]

\* what `last` records of a receipt: the method, the caller, the deposit, the
\* token, the account named (the receiver of a call that returned, the delegate
\* of nft_approve), the approval id given, the error kind, the events, the
\* refunds, the approval id returned (0 when none), the boolean returned
\* ("none" when none) and, of nft_resolve_transfer, the promise result and the
\* approved_account_ids argument
Receipt(op, predecessor, deposit, token_id, account_id, approval_id, r) ==
    [op |-> op, predecessor |-> predecessor, deposit |-> deposit,
     token_id |-> token_id,
     account_id |-> IF r.err = "ok" \/ op = "nft_approve" THEN account_id ELSE NoAccount,
     approval_id |-> approval_id,
     err |-> r.err, events |-> r.events, refunds |-> r.refunds,
     id |-> IF op = "nft_approve" /\ r.err = "ok" THEN r.ret ELSE 0,
     returned |-> IF op = "nft_resolve_transfer" /\ r.err = "ok"
                  THEN IF r.ret THEN "true" ELSE "false"
                  ELSE "none",
     result |-> NoResult, approved_account_ids |-> NoneMap]

ReceiptInit ==
    /\ owner_by_id = [t \in Tokens |-> NoAccount]
    /\ tokens_per_owner = [a \in Accounts |-> NoSet]
    /\ approvals_by_id = [t \in Tokens |-> NoneMap]
    /\ next_approval_id_by_id = [t \in Tokens |-> 0]
    /\ royalty_by_id = [t \in Tokens |-> NoRoyalties]
    /\ approvals_enabled = TRUE
    /\ allow_list = {}
    /\ pending = [i \in Chains |-> OpenChain(NoChain, FALSE)]
    /\ nCalls = 0
    /\ last = Receipt("new", NoAccount, 0, NoToken, NoAccount, 0,
                      Ok(Self, <<>>, <<>>, <<>>, "none"))
    /\ approvedBy = [t \in Tokens |-> NoBy]
    /\ idLog = [t \in Tokens |-> <<>>]

ReceiptNftMint ==
    \E token_id \in CoreTokens, receiver_id \in Accounts :
        LET r == nft_mint(Self, token_id, receiver_id, NoRoyalties) IN
        /\ Store(r)
        /\ last' = Receipt("nft_mint", NoAccount, 0, token_id, receiver_id, 0, r)
        /\ UNCHANGED <<pending, nCalls, approvedBy, idLog>>

\* deposits of nft_approve: one yocto and the cost of one entry
ReceiptNftApprove ==
    \E predecessor \in Accounts, deposit \in {ONE_YOCTO, EntryBytes},
       token_id \in CoreTokens, account_id \in Accounts :
        LET r == nft_approve(Self, predecessor, deposit, token_id, account_id, FALSE) IN
        /\ Len(idLog[token_id]) < MaxApprovals
        /\ Store(r)
        /\ last' = Receipt("nft_approve", predecessor, deposit, token_id, account_id, 0, r)
        /\ approvedBy' = IF r.err = "ok"
                         THEN [approvedBy EXCEPT ![token_id][account_id] = predecessor]
                         ELSE approvedBy
        /\ idLog' = IF r.err = "ok"
                    THEN [idLog EXCEPT ![token_id] = Append(@, r.ret)]
                    ELSE idLog
        /\ UNCHANGED <<pending, nCalls>>

ReceiptNftRevoke ==
    \E predecessor \in Accounts, token_id \in CoreTokens, account_id \in Accounts :
        LET r == nft_revoke(Self, predecessor, ONE_YOCTO, token_id, account_id) IN
        /\ Store(r)
        /\ last' = Receipt("nft_revoke", predecessor, ONE_YOCTO, token_id, account_id, 0, r)
        /\ approvedBy' = IF r.err = "ok"
                         THEN [approvedBy EXCEPT ![token_id][account_id] = NoAccount]
                         ELSE approvedBy
        /\ UNCHANGED <<pending, nCalls, idLog>>

ReceiptNftRevokeAll ==
    \E predecessor \in Accounts, token_id \in CoreTokens :
        LET r == nft_revoke_all(Self, predecessor, ONE_YOCTO, token_id) IN
        /\ Store(r)
        /\ last' = Receipt("nft_revoke_all", predecessor, ONE_YOCTO, token_id, NoAccount,
                           0, r)
        /\ approvedBy' = IF r.err = "ok"
                         THEN [approvedBy EXCEPT ![token_id] = NoBy]
                         ELSE approvedBy
        /\ UNCHANGED <<pending, nCalls, idLog>>

\* the chains whose receiver loses the token by a transfer of token_id
MovedAway(token_id) ==
    [i \in Chains |->
        IF /\ pending[i].phase = "pending" /\ pending[i].token_id = token_id
           /\ owner_by_id[token_id] = pending[i].receiver_id
        THEN [pending[i] EXCEPT !.moved = TRUE]
        ELSE pending[i]]

ReceiptNftTransfer ==
    \E predecessor \in Accounts, receiver_id \in Accounts, token_id \in CoreTokens,
       approval_id \in ApprovalArgs :
        LET r == nft_transfer(Self, predecessor, ONE_YOCTO, receiver_id, token_id,
                              approval_id) IN
        /\ Store(r)
        /\ last' = Receipt("nft_transfer", predecessor, ONE_YOCTO, token_id, receiver_id,
                           approval_id, r)
        /\ pending' = IF r.err = "ok" THEN MovedAway(token_id) ELSE pending
        /\ approvedBy' = IF r.err = "ok"
                         THEN [approvedBy EXCEPT ![token_id] = NoBy]
                         ELSE approvedBy
        /\ UNCHANGED <<nCalls, idLog>>

ReceiptNftTransferCall ==
    \E predecessor \in Accounts, receiver_id \in Accounts, token_id \in CoreTokens :
        LET r == nft_transfer_call(Self, predecessor, ONE_YOCTO, TRUE, receiver_id,
                                   token_id, 0) IN
        /\ nCalls < MaxCalls
        /\ Store(r)
        /\ last' = Receipt("nft_transfer_call", predecessor, ONE_YOCTO, token_id,
                           receiver_id, 0, r)
        /\ pending' = [i \in Chains |->
                         IF i > nCalls /\ i <= nCalls + Len(r.promises)
                         THEN OpenChain(Scheduled(r.promises, approvedBy[token_id])[i],
                                        FALSE)
                         ELSE IF r.err = "ok" THEN MovedAway(token_id)[i]
                         ELSE pending[i]]
        /\ nCalls' = nCalls + Len(r.promises)
        /\ approvedBy' = IF r.err = "ok"
                         THEN [approvedBy EXCEPT ![token_id] = NoBy]
                         ELSE approvedBy
        /\ UNCHANGED idLog

ReceiptResolveTransfer ==
    \E i \in Chains, result \in Settled :
        LET p == pending[i]
            r == nft_resolve_transfer(Self, result, p.previous_owner_id, p.receiver_id,
                                      p.token_id, p.approved_account_ids) IN
        /\ p.phase = "pending"
        /\ Store(r)
        /\ last' = [Receipt("nft_resolve_transfer", p.previous_owner_id, 0, p.token_id,
                            p.receiver_id, 0, r)
                    EXCEPT !.result = result,
                           !.approved_account_ids = p.approved_account_ids]
        /\ pending' = [pending EXCEPT ![i] = [p EXCEPT !.phase = "resolved"]]
        /\ approvedBy' =
              IF r.err = "ok" /\ r.ret = FALSE /\ p.approved_account_ids.some
              THEN [approvedBy EXCEPT ![p.token_id] = p.by]
              ELSE approvedBy
        /\ UNCHANGED <<nCalls, idLog>>

ReceiptNext ==
    \/ ReceiptNftMint
    \/ ReceiptNftApprove
    \/ ReceiptNftRevoke
    \/ ReceiptNftRevokeAll
    \/ ReceiptNftTransfer
    \/ ReceiptNftTransferCall
    \/ ReceiptResolveTransfer

ReceiptSpec == ReceiptInit /\ [][ReceiptNext]_vars

(* ------------------------------------------------------------------ *)
(* nft_resolve_transfer as a public method. It carries no #[private] and *)
(* never reads the predecessor, so any account can have it run as the    *)
(* callback of a promise of its own making, with the promise result and  *)
(* the four arguments it chooses.                                        *)
(* ------------------------------------------------------------------ *)
\* the approved_account_ids a caller passes: None, or itself with id 1
ForgedApprovals(caller) == {NoneMap, SomeMap([NoApprovals EXCEPT ![caller] = 1])}
\* the results of the promise the caller puts before the callback
ForgedResults ==
    {[status |-> "Failed", value |-> "null"], [status |-> "Successful", value |-> "false"]}

\* the caller names itself as previous_owner_id
ForgedResolveTransfer ==
    \E result \in ForgedResults, previous_owner_id \in Accounts,
       receiver_id \in Accounts, token_id \in Tokens :
      \E approved_account_ids \in ForgedApprovals(previous_owner_id) :
        LET r == nft_resolve_transfer(Self, result, previous_owner_id, receiver_id,
                                      token_id, approved_account_ids) IN
        /\ Store(r)
        /\ last' = [Receipt("nft_resolve_transfer", previous_owner_id, 0, token_id,
                            receiver_id, 0, r)
                    EXCEPT !.result = result,
                           !.approved_account_ids = approved_account_ids]
        /\ approvedBy' =
              IF r.err = "ok" /\ r.ret = FALSE /\ approved_account_ids.some
              THEN [approvedBy EXCEPT ![token_id] =
                       [a \in Accounts |->
                           IF approved_account_ids.ids[a] # 0
                           THEN previous_owner_id ELSE NoAccount]]
              ELSE approvedBy
        /\ UNCHANGED <<pending, nCalls, idLog>>

ForgedNext ==
    \/ ReceiptNftMint
    \/ ReceiptNftTransfer
    \/ ReceiptNftTransferCall
    \/ ReceiptResolveTransfer
    \/ ForgedResolveTransfer

ForgedSpec == ReceiptInit /\ [][ForgedNext]_vars

(* ------------------------------------------------------------------ *)
(* The state machine of the per-owner index: mints, transfers, stage-1  *)
(* commits and resolutions on two tokens                                 *)
(* ------------------------------------------------------------------ *)
IndexNext ==
    \/ NftMint(Tokens)
    \/ NftTransfer(Tokens)
    \/ NftTransferCall(Tokens)
    \/ ResolveTransfer

IndexSpec == Init /\ [][IndexNext]_vars

(* ------------------------------------------------------------------ *)
(* The state machine of minting access: the owner's allow_minting_access *)
(* and revoke_minting_access, nft_mint by every account, and approvals   *)
(* of the minted token                                                   *)
(* ------------------------------------------------------------------ *)
AllowMintingAccess ==
    \E predecessor \in Accounts, account_id \in Accounts :
        LET r == allow_minting_access(Self, predecessor, account_id) IN
        /\ Store(r)
        /\ last' = Receipt("allow_minting_access", predecessor, 0, NoToken, account_id,
                           0, r)
        /\ UNCHANGED <<pending, nCalls, approvedBy, idLog>>

RevokeMintingAccess ==
    \E predecessor \in Accounts, account_id \in Accounts :
        LET r == revoke_minting_access(Self, predecessor, account_id) IN
        /\ Store(r)
        /\ last' = Receipt("revoke_minting_access", predecessor, 0, NoToken, account_id,
                           0, r)
        /\ UNCHANGED <<pending, nCalls, approvedBy, idLog>>

\* nft_mint with its caller recorded; the royalties are None or one creator's
MintByAccount ==
    \E predecessor \in Accounts, token_id \in CoreTokens, receiver_id \in Accounts,
       perpetual_royalties \in {NoRoyalties, Shares(1000, -1, -1)} :
        LET r == nft_mint(Self, token_id, receiver_id, perpetual_royalties) IN
        /\ Store(r)
        /\ last' = Receipt("nft_mint", predecessor, 0, token_id, receiver_id, 0, r)
        /\ UNCHANGED <<pending, nCalls, approvedBy, idLog>>

MintNext ==
    \/ AllowMintingAccess
    \/ RevokeMintingAccess
    \/ MintByAccount
    \/ ReceiptNftApprove

MintSpec == ReceiptInit /\ [][MintNext]_vars

(* ------------------------------------------------------------------ *)
(* Properties                                                           *)
(* ------------------------------------------------------------------ *)
\* the step resolves chain i: its callback nft_resolve_transfer runs
Resolves(i) == pending[i].phase = "pending" /\ pending'[i].phase = "resolved"
ContractVars ==
    <<owner_by_id, tokens_per_owner, approvals_by_id, next_approval_id_by_id,
      royalty_by_id>>
TransferOps == {"nft_transfer", "nft_transfer_payout", "nft_transfer_call"}

\* C1: when the notification failed and the receiver still owns the token, the
\* resolution leaves the previous owner as owner and the approvals the token had
\* right before stage 1 (none, when it had no entry), whatever the receiver
\* approved in between.
C1_RollbackRestoresSnapshot ==
    [][\A i \in Chains :
          (/\ Resolves(i)
           /\ last'.result.status = "Failed"
           /\ owner_by_id[pending[i].token_id] = pending[i].receiver_id)
          => /\ owner_by_id'[pending[i].token_id] = pending[i].previous_owner_id
             /\ approvals_by_id'[pending[i].token_id].ids
                    = pending[i].approved_account_ids.ids]_vars

\* the rollback the claim C2 asks for: a failure, or a payload decoding as false
C2_ClaimedRevert(result) ==
    result.status = "Failed" \/ (result.status = "Successful" /\ result.value = "false")
\* the rollback of the code: a failure, or a payload that decodes as true or is
\* no boolean
C2_CodeRevert(result) ==
    result.status = "Failed" \/ (result.status = "Successful" /\ result.value # "false")

\* C2 as claimed: a resolution that finds the receiver owning the token rolls back
\* exactly on a failure or a payload false, and otherwise changes no state.
C2_RevertOnFalse ==
    [][\A i \in Chains :
          (Resolves(i) /\ owner_by_id[pending[i].token_id] = pending[i].receiver_id)
          => /\ C2_ClaimedRevert(last'.result)
                    <=> owner_by_id'[pending[i].token_id] = pending[i].previous_owner_id
             /\ ~C2_ClaimedRevert(last'.result) => UNCHANGED ContractVars]_vars

\* C2 amended: a resolution that finds the receiver owning the token rolls back
\* exactly on a failure, a payload true or a payload that is no boolean; on a
\* payload false it returns true and changes no state.
C2_RevertUnlessFalse ==
    [][\A i \in Chains :
          (Resolves(i) /\ owner_by_id[pending[i].token_id] = pending[i].receiver_id)
          => /\ C2_CodeRevert(last'.result)
                    <=> owner_by_id'[pending[i].token_id] = pending[i].previous_owner_id
             /\ ~C2_CodeRevert(last'.result)
                    => UNCHANGED ContractVars /\ last'.returned = "true"]_vars

\* a resolution on a payload false has left the token with the receiver
C2_Witness ==
    /\ last.op = "nft_resolve_transfer" /\ last.err = "ok"
    /\ last.result = [status |-> "Successful", value |-> "false"]
    /\ owner_by_id[last.token_id] = last.receiver_id
    /\ last.returned = "true"

\* C3: a resolution that finds the token owned by a third account does not roll
\* back, whatever the result: it returns true, owner and approvals stay and no
\* event is logged.
C3_NoRollbackAfterMove ==
    [][\A i \in Chains :
          (/\ Resolves(i)
           /\ owner_by_id[pending[i].token_id] # NoAccount
           /\ owner_by_id[pending[i].token_id] # pending[i].receiver_id)
          => /\ UNCHANGED ContractVars
             /\ last'.events = <<>>
             /\ last'.returned = "true"]_vars

\* a chain aa -> bb was resolved on a failure with the token owned by a third
\* account, whose approvals are in place
C3_Witness ==
    /\ last.op = "nft_resolve_transfer" /\ last.result.status = "Failed"
    /\ owner_by_id[last.token_id] \notin {last.predecessor, last.receiver_id, NoAccount}
    /\ Keys(approvals_by_id[last.token_id].ids) # {}

\* C4: the ids assigned to a token start at 1 and each is greater than all the
\* ids assigned before, and the next id of the token is greater than all of them.
C4_IdsIncrease ==
    \A t \in Tokens :
        /\ Len(idLog[t]) > 0 => idLog[t][1] = 1
        /\ \A j, k \in 1 .. Len(idLog[t]) : j < k => idLog[t][j] < idLog[t][k]
        /\ \A k \in 1 .. Len(idLog[t]) : idLog[t][k] < next_approval_id_by_id[t]

\* a second id was assigned after the first one left the map (a revoke, a
\* transfer or a rollback)
C4_Witness ==
    \E t \in Tokens :
        /\ Len(idLog[t]) = 2 /\ last.op = "nft_approve" /\ last.err = "ok"
        /\ Cardinality(Keys(approvals_by_id[t].ids)) = 1

\* C5: under fair delivery of the notification outcome every committed stage 1
\* creates one pending chain, every pending chain is eventually resolved, a
\* resolved chain is never resolved again, one callback resolves one chain, and
\* a resolution schedules nothing.
C5_ResolvedExactlyOnce ==
    /\ \A i \in Chains : (pending[i].phase = "pending") ~> (pending[i].phase = "resolved")
    /\ [][/\ (/\ last'.op = "nft_transfer_call" /\ last'.err = "ok"
              /\ owner_by_id' # owner_by_id)
             => /\ last'.scheduled = 1
                /\ Cardinality({i \in Chains : /\ pending[i].phase = "unused"
                                               /\ pending'[i].phase = "pending"
                                               /\ pending'[i].token_id = last'.token_id})
                       = 1
          /\ \A i \in Chains :
                /\ pending[i].phase = "resolved" => pending'[i] = pending[i]
                /\ pending[i].phase = "pending"
                       => pending'[i] = pending[i] \/ pending'[i].phase = "resolved"
                /\ Resolves(i)
                       => /\ last'.op = "nft_resolve_transfer" /\ last'.chain = i
                          /\ last'.scheduled = 0
                          /\ nCalls' = nCalls
                          /\ \A j \in Chains \ {i} : pending'[j] = pending[j]]_vars

\* the chain of a committed stage 1 was resolved by its callback
C5_Witness ==
    /\ last.op = "nft_resolve_transfer" /\ last.chain = 1
    /\ pending[1].phase = "resolved"
    /\ nCalls >= 1

\* C6: right after a successful nft_transfer, nft_transfer_payout or stage 1 of
\* nft_transfer_call, by the owner or by a delegate, the receiver owns the token,
\* the token has no approval entry and no account is approved for it.
C6_TransferClearsApprovals ==
    (last.op \in TransferOps /\ last.err = "ok")
    => /\ owner_by_id[last.token_id] = last.receiver_id
       /\ approvals_by_id[last.token_id] = NoneMap
       /\ \A d \in Accounts : ~nft_is_approved(Self, last.token_id, d, 0).ret

\* a delegate of the previous owner has run stage 1 of nft_transfer_call and the
\* chain is pending
C6_Witness ==
    /\ last.op = "nft_transfer_call" /\ last.err = "ok"
    /\ \E i \in Chains :
          /\ pending[i].phase = "pending"
          /\ pending[i].previous_owner_id # last.predecessor
          /\ Keys(pending[i].approved_account_ids.ids) # {}

\* C7: at the end of nft_transfer, of nft_transfer_payout and of the resolution of
\* nft_transfer_call, every delegate in the token's approval map was approved by
\* the account that owns the token.
C7_ApprovalsAreTheOwners ==
    (/\ last.err = "ok"
     /\ last.op \in {"nft_transfer", "nft_transfer_payout", "nft_resolve_transfer"})
    => \A d \in Keys(approvals_by_id[last.token_id].ids) :
           approvedBy[last.token_id][d] = owner_by_id[last.token_id]

\* whether the sender passes the authorization of a transfer of token t
C8_Authorized(t, sender_id, approval_id) ==
    \/ sender_id = owner_by_id[t]
    \/ /\ approvals_by_id[t].ids[sender_id] # 0
       /\ approval_id \in {0, approvals_by_id[t].ids[sender_id]}
ApprovalIds == 0 .. MaxApprovals + 1

\* C8: on an existing token nft_transfer fails Unauthorized for a sender that is
\* neither the owner nor in the approval map, InvalidApproval for a delegate
\* giving an id other than the stored one, and passes the authorization for the
\* owner with any id and for a delegate with the stored id or none.
C8_Authorization ==
    \A t \in CoreTokens, sender_id \in Accounts, receiver_id \in Accounts,
       approval_id \in ApprovalIds :
        LET r == nft_transfer(Self, sender_id, ONE_YOCTO, receiver_id, t, approval_id)
            stored == approvals_by_id[t].ids[sender_id]
        IN  owner_by_id[t] # NoAccount
            => /\ (sender_id # owner_by_id[t] /\ stored = 0) => r.err = "Unauthorized"
               /\ (sender_id # owner_by_id[t] /\ stored # 0
                   /\ approval_id \notin {0, stored}) => r.err = "InvalidApproval"
               /\ C8_Authorized(t, sender_id, approval_id)
                      => r.err = IF receiver_id = owner_by_id[t]
                                 THEN "SelfTransferRejected" ELSE "ok"

\* a delegate with an entry was refused for its approval id
C8_Witness ==
    /\ last.op = "nft_transfer" /\ last.err = "InvalidApproval"
    /\ Keys(approvals_by_id[last.token_id].ids) # {}

\* C9 as claimed: nft_transfer of an existing token to its owner fails
\* SelfTransferRejected for every sender and every approval id, and changes no
\* state.
C9_AlwaysSelfTransferRejected ==
    \A t \in CoreTokens, sender_id \in Accounts, approval_id \in ApprovalIds :
        LET r == nft_transfer(Self, sender_id, ONE_YOCTO, owner_by_id[t], t, approval_id)
        IN  owner_by_id[t] # NoAccount
            => r.err = "SelfTransferRejected" /\ r.c = Self

\* C9 amended: nft_transfer of an existing token to its owner always fails and
\* changes no state; it fails SelfTransferRejected exactly for a sender that
\* passes the authorization, and Unauthorized or InvalidApproval for the others.
C9_SelfTransferFails ==
    \A t \in CoreTokens, sender_id \in Accounts, approval_id \in ApprovalIds :
        LET r == nft_transfer(Self, sender_id, ONE_YOCTO, owner_by_id[t], t, approval_id)
        IN  owner_by_id[t] # NoAccount
            => /\ r.err # "ok" /\ r.c = Self
               /\ r.err = "SelfTransferRejected" <=> C8_Authorized(t, sender_id, approval_id)
               /\ r.err \in {"SelfTransferRejected", "Unauthorized", "InvalidApproval"}

\* a sender that passes the authorization was refused a transfer of the token
\* to the owner
C9_Witness ==
    /\ last.op = "nft_transfer" /\ last.err = "SelfTransferRejected"
    /\ owner_by_id[last.token_id] # NoAccount

\* C10: a call of nft_mint, nft_approve, nft_revoke, nft_revoke_all, nft_transfer,
\* nft_transfer_payout or nft_transfer_call that fails changes no map of the
\* contract and schedules nothing.
C10_FailureChangesNothing ==
    [][(last'.err # "ok" /\ last'.op # "nft_resolve_transfer")
       => /\ UNCHANGED <<ContractVars, pending, nCalls>>
          /\ last'.scheduled = 0
          /\ last'.events = <<>>]_vars

\* nft_transfer_payout failed on the size of the payout, after its transfer
C10_Witness ==
    /\ last.op = "nft_transfer_payout" /\ last.err = "TooManyRoyalties"
    /\ owner_by_id[last.token_id] # NoAccount

\* nft_is_approved is false for every delegate and every expected id
NoneApproved(c, t) ==
    \A d \in Accounts, approval_id \in ApprovalIds : ~nft_is_approved(c, t, d, approval_id).ret

\* C11 as claimed: right after a successful nft_revoke_all no delegate of the
\* token is approved, and none is after the following call unless that call is
\* an nft_approve.
C11_FalseUntilApprove ==
    [][/\ (last'.op = "nft_revoke_all" /\ last'.err = "ok")
              => NoneApproved(Self', last'.token_id)
       /\ (last.op = "nft_revoke_all" /\ last.err = "ok" /\ last'.op # "nft_approve")
              => NoneApproved(Self', last.token_id)]_vars

\* C11 amended: right after a successful nft_revoke_all no delegate of the token
\* is approved, and a token without approved delegates gets one only by a
\* successful nft_approve or by a resolution that rolls a transfer back and
\* reinstates the approvals of the previous owner.
C11_FalseUntilApproveOrRollback ==
    [][/\ (last'.op = "nft_revoke_all" /\ last'.err = "ok")
              => NoneApproved(Self', last'.token_id)
       /\ \A t \in Tokens :
             (/\ owner_by_id[t] # NoAccount
              /\ NoneApproved(Self, t) /\ ~NoneApproved(Self', t))
             => /\ last'.token_id = t /\ last'.err = "ok"
                /\ \/ last'.op = "nft_approve"
                   \/ last'.op = "nft_resolve_transfer" /\ last'.returned = "false"]_vars

\* the receiver of a pending nft_transfer_call has revoked all approvals of the
\* token, whose previous owner had approved a delegate
C11_Witness ==
    /\ last.op = "nft_revoke_all" /\ last.err = "ok"
    /\ Len(idLog[last.token_id]) = 2
    /\ Keys(approvals_by_id[last.token_id].ids) = {}
    /\ \E i \in Chains :
          /\ pending[i].phase = "pending"
          /\ pending[i].receiver_id = last.predecessor
          /\ Keys(pending[i].approved_account_ids.ids) # {}

\* the sum of the amounts of a payout
PayoutTotal(payout) == SumShares(payout, RoyaltyKeys(payout))
\* the basis points of the accounts of the schedule of token t other than a
OtherShares(t, a) ==
    SumShares(royalty_by_id[t].royalty, RoyaltyKeys(royalty_by_id[t].royalty) \ {a})
PayoutReturned == last.op = "nft_payout" /\ last.err = "ok"

\* C12 as claimed: the amounts nft_payout returns sum to exactly the balance, and
\* the owner's amount is the balance minus the sum of the other amounts.
C12_PayoutSumsToBalance ==
    PayoutReturned
    => /\ PayoutTotal(last.returned) = last.args.balance
       /\ last.returned[owner_by_id[last.token_id]]
              = last.args.balance
                - SumShares(last.returned,
                            RoyaltyKeys(last.returned) \ {owner_by_id[last.token_id]})

\* C12 amended: every amount is rounded down, so the amounts nft_payout returns
\* sum to at most the balance and to more than the balance minus the number of
\* amounts, and to exactly the balance when it is a multiple of 10000; the
\* owner's amount is at most the balance minus the sum of the other amounts.
C12_PayoutSumsWithinBalance ==
    PayoutReturned
    => LET total == PayoutTotal(last.returned)
           owner == owner_by_id[last.token_id]
           balance == last.args.balance
       IN  /\ total <= balance
           /\ total > balance - Cardinality(RoyaltyKeys(last.returned))
           /\ balance % 10000 = 0 => total = balance
           /\ last.returned[owner]
                  <= balance - SumShares(last.returned, RoyaltyKeys(last.returned) \ {owner})

\* a payout of a balance the shares do not divide came short of the balance
C12_Witness ==
    /\ PayoutReturned
    /\ last.args.balance = 9999
    /\ PayoutTotal(last.returned) < last.args.balance
    /\ Cardinality(RoyaltyKeys(last.returned)) = 3

\* C13: nft_payout returns floor(share * balance / 10000) for every account of
\* the schedule but the owner, floor((10000 - their shares) * balance / 10000)
\* for the owner whether or not the schedule names it, and no other entry.
C13_PayoutAmounts ==
    PayoutReturned
    => \A a \in Accounts :
          LET owner == owner_by_id[last.token_id]
              royalty == royalty_by_id[last.token_id].royalty
          IN  last.returned[a] =
                 IF a = owner
                 THEN ((10000 - OtherShares(last.token_id, owner)) * last.args.balance)
                          \div 10000
                 ELSE IF royalty[a] # -1
                     THEN (royalty[a] * last.args.balance) \div 10000
                 ELSE -1

\* a payout of a token whose owner has an entry with a share in the schedule,
\* next to another creator
C13_Witness ==
    /\ PayoutReturned
    /\ last.args.balance = 9999
    /\ royalty_by_id[last.token_id].royalty[owner_by_id[last.token_id]] > 0
    /\ Cardinality(RoyaltyKeys(royalty_by_id[last.token_id].royalty)) = 3

\* the amount floor(points * balance / 10000)
C14_Amount(points, balance) == (points * balance) \div 10000
\* a schedule over the cap when aa is the previous owner and within it for the
\* others; internal_mint stores no schedule over the cap, so the assert of
\* nft_transfer_payout is tried on this one
C14_OverCap == [aa |-> 2000, bb |-> 4000, cc |-> 4000]

\* C14: nft_transfer_payout with a balance makes the receiver the owner and
\* returns a payout in which the previous owner gets the remainder share, the
\* receiver its scheduled share if it has one and every other account of the
\* schedule its share; it fails RoyaltyCapExceeded when the shares of the
\* accounts other than the previous owner exceed 7000.
C14_TransferPayout ==
    /\ (last.op = "nft_transfer_payout" /\ last.err = "ok")
       => LET prev == last.args.previous_owner_id
              recv == last.args.receiver_id
              royalty == royalty_by_id[last.token_id].royalty
              others == OtherShares(last.token_id, prev)
          IN  /\ owner_by_id[last.token_id] = recv /\ recv # prev
              /\ others <= MINTER_ROYALTY_CAP
              /\ last.returned[prev] = C14_Amount(10000 - others, last.args.balance)
              /\ \A a \in Accounts \ {prev} :
                    last.returned[a] =
                        IF royalty[a] # -1 THEN C14_Amount(royalty[a], last.args.balance)
                        ELSE -1
    /\ \A t \in CoreTokens, recv \in Accounts :
          LET over == [Self EXCEPT !.royalty_by_id[t].royalty = C14_OverCap]
              r == nft_transfer_payout(over, owner_by_id[t], ONE_YOCTO, recv, t, 0, 1, 3)
          IN  (owner_by_id[t] # NoAccount /\ recv # owner_by_id[t])
              => r.err = IF SumShares(C14_OverCap, Accounts \ {owner_by_id[t]})
                                > MINTER_ROYALTY_CAP
                         THEN "RoyaltyCapExceeded" ELSE "ok"

\* the owner sold the token to an account with a share in its schedule, and is
\* itself in the schedule
C14_Witness ==
    /\ last.op = "nft_transfer_payout" /\ last.err = "ok"
    /\ last.args.balance = 9999
    /\ royalty_by_id[last.token_id].royalty[last.args.receiver_id] > 0
    /\ royalty_by_id[last.token_id].royalty[last.args.previous_owner_id] > 0

\* C15: nft_payout fails TooManyRoyalties exactly when the schedule has more
\* entries than max_len_payout, the owner's entry counted when it has one and
\* not when it has none.
C15_TooManyRoyalties ==
    (last.op = "nft_payout" /\ owner_by_id[last.token_id] # NoAccount)
    => LET entries == Cardinality(RoyaltyKeys(royalty_by_id[last.token_id].royalty))
       IN  /\ entries > last.args.max_len_payout => last.err = "TooManyRoyalties"
           /\ entries <= last.args.max_len_payout => last.err = "ok"

\* a payout as long as max_len_payout admits was returned for an owner without
\* entry in the schedule
C15_Witness ==
    /\ PayoutReturned
    /\ royalty_by_id[last.token_id].royalty[owner_by_id[last.token_id]] = -1
    /\ Cardinality(RoyaltyKeys(royalty_by_id[last.token_id].royalty))
           = last.args.max_len_payout

\* the sum of the shares of a royalty map, 0 for None
SuppliedTotal(perpetual_royalties) ==
    SumShares(perpetual_royalties.royalty, RoyaltyKeys(perpetual_royalties.royalty))

\* C16: after a successful nft_mint the stored schedule holds every supplied
\* share and, on top of them, 150 basis points for the contract owner, also when
\* the supplied map names the contract owner: the stored shares sum to 150 plus
\* the sum of the supplied ones.
C16_AdminShareOnTop ==
    (last.op = "nft_mint" /\ last.err = "ok")
    => LET supplied == last.args.perpetual_royalties.royalty
           stored == royalty_by_id[last.token_id].royalty
       IN  /\ \A a \in Accounts \ {owner_id} : stored[a] = supplied[a]
           /\ stored[owner_id]
                  = ADMIN_ROYALTY + (IF supplied[owner_id] = -1 THEN 0 ELSE supplied[owner_id])
           /\ SumShares(stored, RoyaltyKeys(stored))
                  = ADMIN_ROYALTY + SuppliedTotal(last.args.perpetual_royalties)

\* whether a supplied royalty map passes neither cap of internal_mint
C17_OverCap(perpetual_royalties) ==
    \/ \E a \in RoyaltyKeys(perpetual_royalties.royalty) :
          perpetual_royalties.royalty[a] >= 7000
    \/ 150 + SuppliedTotal(perpetual_royalties) > 7000

\* C17: nft_mint of a new token id with a royalty map holding a share of 7000 or
\* more, or whose shares plus 150 exceed 7000, fails RoyaltyCapExceeded and
\* leaves the token without owner, approval map, next approval id and schedule;
\* a map within both caps is minted.
C17_MintOverCapFails ==
    [][(/\ last'.op = "nft_mint"
        /\ owner_by_id[last'.token_id] = NoAccount)
       => IF C17_OverCap(last'.args.perpetual_royalties)
          THEN /\ last'.err = "RoyaltyCapExceeded"
               /\ owner_by_id'[last'.token_id] = NoAccount
               /\ approvals_by_id'[last'.token_id] = NoneMap
               /\ next_approval_id_by_id'[last'.token_id] = 0
               /\ royalty_by_id'[last'.token_id] = NoRoyalties
               /\ tokens_per_owner' = tokens_per_owner
          ELSE /\ last'.err = "ok"
               /\ owner_by_id'[last'.token_id] = last'.args.receiver_id]_vars

\* a mint with shares each below 7000 and exceeding it with the 150 of the
\* contract owner was refused
C17_Witness ==
    /\ last.op = "nft_mint" /\ last.err = "RoyaltyCapExceeded"
    /\ \A a \in Accounts : last.args.perpetual_royalties.royalty[a] < 7000
    /\ SuppliedTotal(last.args.perpetual_royalties) = 6851
    /\ owner_by_id[last.token_id] = NoAccount

\* C18: in every state the shares of the accounts of a token's schedule other
\* than its owner sum to at most 7000, so the owner's share 10000 minus that sum
\* is at least 3000; this holds whichever account is taken for the owner.
C18_OthersWithinCap ==
    \A t \in Tokens :
        owner_by_id[t] # NoAccount
        => /\ OtherShares(t, owner_by_id[t]) <= MINTER_ROYALTY_CAP
           /\ 10000 - OtherShares(t, owner_by_id[t]) >= 3000
           /\ \A a \in Accounts : OtherShares(t, a) <= MINTER_ROYALTY_CAP

\* a token whose schedule reaches the cap went back to its previous owner, which
\* has no share in it, by a rollback
C18_Witness ==
    /\ last.op = "nft_resolve_transfer" /\ last.returned = "false"
    /\ royalty_by_id[last.token_id].royalty[owner_by_id[last.token_id]] = -1
    /\ OtherShares(last.token_id, owner_by_id[last.token_id]) = MINTER_ROYALTY_CAP

\* the deposits nft_approve accepts for a new entry, and nft_revoke and
\* nft_revoke_all accept
C19_Deposits == {ONE_YOCTO, EntryBytes}

C20_ResolveCompletes ==
    /\ last.op = "nft_resolve_transfer"
           => /\ last.result \in Settled
              /\ last.err = "ok"
              /\ last.returned \in {"true", "false"}
    /\ \A i \in Chains, result \in PromiseResults :
          LET p == pending[i]
              r == nft_resolve_transfer(Self, result, p.previous_owner_id, p.receiver_id,
                                        p.token_id, p.approved_account_ids)
          IN  p.phase = "pending"
              => IF result \in Settled
                 THEN r.err = "ok" /\ r.ret \in BOOLEAN
                 ELSE r.err = "Abort" /\ r.c = Self

\* a transfer was rolled back on a contract without Approval Management
C20_Witness ==
    /\ ~approvals_enabled
    /\ last.op = "nft_resolve_transfer" /\ last.err = "ok"
    /\ last.returned = "false"
    /\ owner_by_id[last.token_id] = last.predecessor

\* the approval entries held for token t: those of its approval map and those of
\* the snapshots carried by its pending chains
EntriesHeld(approvals, chains, t) ==
    Cardinality(Keys(approvals[t].ids))
    + SumShares([i \in Chains |->
                    IF chains[i].phase = "pending" /\ chains[i].token_id = t
                    THEN Cardinality(Keys(chains[i].approved_account_ids.ids))
                    ELSE 0],
                Chains)
\* the entries a receipt charged: what nft_approve kept of the deposit
EntriesCharged(rc) ==
    IF rc.op = "nft_approve" /\ rc.err = "ok"
    THEN (rc.deposit - (IF rc.refunds = <<>> THEN 0 ELSE rc.refunds[1].yocto))
             \div EntryBytes
    ELSE 0
\* the entries a receipt refunded
EntriesRefunded(rc) ==
    IF rc.op \in {"nft_revoke", "nft_revoke_all", "nft_resolve_transfer"}
       /\ rc.refunds # <<>>
    THEN rc.refunds[1].entries
    ELSE 0

\* C21: every receipt keeps the storage account of a token balanced: the entries
\* held for the token (in its approval map or in a pending snapshot) change by
\* the entries the receipt charged minus the entries it refunded, so entries
\* charged = entries refunded + entries stored after every sequence of receipts.
C21_StorageBalanced ==
    [][\A t \in CoreTokens :
          EntriesHeld(approvals_by_id', pending', t)
              - EntriesHeld(approvals_by_id, pending, t)
          = EntriesCharged(last') - EntriesRefunded(last')]_vars

\* the step runs nft_resolve_transfer (as the callback of a chain or of a promise
\* of the caller's making) and `last` is its receipt
ResolveRuns == last'.op = "nft_resolve_transfer" /\ last'.err = "ok"

\* C22: a resolution that must revert and finds no owner for the token refunds
\* the storage of the entries of its approved_account_ids argument to the
\* previous owner (nothing when the argument is None) and returns true: the
\* owner map, the index and the approval map stay as they are, and no event is
\* logged.
C22_MissingTokenRefundsOnly ==
    [][(/\ ResolveRuns
        /\ must_revert(last'.result)
        /\ owner_by_id[last'.token_id] = NoAccount)
       => /\ UNCHANGED ContractVars
          /\ owner_by_id'[last'.token_id] = NoAccount
          /\ ~approvals_by_id'[last'.token_id].some
          /\ last'.events = <<>>
          /\ last'.returned = "true"
          /\ last'.refunds =
                 IF last'.approved_account_ids.some
                 THEN <<[to |-> last'.predecessor,
                         entries |-> Cardinality(Keys(last'.approved_account_ids.ids))]>>
                 ELSE <<>>]_vars

\* a resolution on a failed promise found no owner for the token and refunded one
\* entry to the previous owner it was given
C22_Witness ==
    /\ last.op = "nft_resolve_transfer" /\ last.err = "ok"
    /\ last.result.status = "Failed"
    /\ owner_by_id[last.token_id] = NoAccount
    /\ last.approved_account_ids.some
    /\ last.refunds = <<[to |-> last.predecessor, entries |-> 1]>>
    /\ last.returned = "true"

ApprovalOps == {"nft_approve", "nft_revoke", "nft_revoke_all"}

\* C23: nft_approve, nft_revoke and nft_revoke_all return only for the token's
\* current owner; called by any other account on an existing token they fail
\* Unauthorized, and the token's approval map and next approval id stay.
C23_OwnerOnly ==
    [][last'.op \in ApprovalOps
       => /\ last'.err = "ok" => last'.predecessor = owner_by_id[last'.token_id]
          /\ (/\ owner_by_id[last'.token_id] # NoAccount
              /\ last'.predecessor # owner_by_id[last'.token_id])
             => /\ last'.err = "Unauthorized"
                /\ UNCHANGED <<approvals_by_id, next_approval_id_by_id>>]_vars

\* an approved delegate that is not the owner called nft_revoke or nft_revoke_all
\* and failed
C23_Witness ==
    /\ last.op \in {"nft_revoke", "nft_revoke_all"} /\ last.err = "Unauthorized"
    /\ last.predecessor # owner_by_id[last.token_id]
    /\ approvals_by_id[last.token_id].ids[last.predecessor] # 0

\* the deposit nft_approve needs for delegate d of token t: the storage of one
\* entry when d has none, and the one yocto of every call otherwise
C24_Required(t, d) == IF approvals_by_id[t].ids[d] = 0 THEN EntryBytes ELSE ONE_YOCTO

\* C24: nft_approve by the owner returns exactly when the deposit covers the
\* storage of a new entry (one yocto is enough for a delegate that has one) and
\* fails InsufficientPayment otherwise; when it returns, the delegate's id is
\* the token's next id, which is returned, every other delegate keeps its id
\* and the next id grows by one. A transfer by a delegate that is not the owner
\* fails InvalidApproval exactly when it quotes an id other than the one the
\* delegate holds now, so an overwritten id no longer authorizes.
C24_ApproveOverwrites ==
    [][/\ (/\ last'.op = "nft_approve"
           /\ owner_by_id[last'.token_id] # NoAccount
           /\ last'.predecessor = owner_by_id[last'.token_id])
          => LET t == last'.token_id
                 d == last'.account_id
             IN  IF last'.deposit >= C24_Required(t, d)
                 THEN /\ last'.err = "ok"
                      /\ last'.id = next_approval_id_by_id[t]
                      /\ approvals_by_id'[t] =
                             SomeMap([approvals_by_id[t].ids EXCEPT ![d] =
                                         next_approval_id_by_id[t]])
                      /\ next_approval_id_by_id'[t] = next_approval_id_by_id[t] + 1
                 ELSE /\ last'.err = "InsufficientPayment"
                      /\ UNCHANGED ContractVars
       /\ (/\ last'.op = "nft_transfer"
           /\ owner_by_id[last'.token_id] # NoAccount
           /\ last'.predecessor # owner_by_id[last'.token_id]
           /\ approvals_by_id[last'.token_id].ids[last'.predecessor] # 0)
          => LET held == approvals_by_id[last'.token_id].ids[last'.predecessor]
             IN  IF last'.approval_id \in {0, held}
                 THEN last'.err \in {"ok", "SelfTransferRejected"}
                 ELSE last'.err = "InvalidApproval" /\ UNCHANGED ContractVars]_vars

\* a delegate approved twice holds id 2, and its transfer quoting id 1 failed
C24_Witness ==
    /\ last.op = "nft_transfer" /\ last.err = "InvalidApproval"
    /\ last.approval_id = 1
    /\ last.predecessor # owner_by_id[last.token_id]
    /\ approvals_by_id[last.token_id].ids[last.predecessor] = 2
    /\ idLog[last.token_id] = <<1, 2>>
    /\ Cardinality(Keys(approvals_by_id[last.token_id].ids)) = 1

\* C25: nft_revoke by the owner returns. When the delegate has an entry, that
\* entry alone leaves the token's approval map (the map itself when it was the
\* last) and the storage of one entry is refunded to the owner; when it has
\* none, the approval map stays and nothing is refunded. The owner, the index,
\* the next approval id and the royalties stay either way.
C25_RevokeRemovesOne ==
    [][(/\ last'.op = "nft_revoke"
        /\ owner_by_id[last'.token_id] # NoAccount
        /\ last'.predecessor = owner_by_id[last'.token_id])
       => LET t == last'.token_id
              d == last'.account_id
              rest == [approvals_by_id[t].ids EXCEPT ![d] = 0]
          IN  /\ last'.err = "ok"
              /\ UNCHANGED <<owner_by_id, tokens_per_owner, next_approval_id_by_id,
                             royalty_by_id>>
              /\ \A u \in Tokens \ {t} : approvals_by_id'[u] = approvals_by_id[u]
              /\ IF approvals_by_id[t].ids[d] # 0
                 THEN /\ approvals_by_id'[t].ids = rest
                      /\ approvals_by_id'[t].some = (Keys(rest) # {})
                      /\ last'.refunds = <<[to |-> owner_by_id[t], entries |-> 1]>>
                 ELSE /\ approvals_by_id'[t] = approvals_by_id[t]
                      /\ last'.refunds = <<>>]_vars

\* the owner revoked one of two delegates: one entry was refunded and the other
\* delegate holds its id
C25_Witness ==
    /\ last.op = "nft_revoke" /\ last.err = "ok"
    /\ last.refunds = <<[to |-> owner_by_id[last.token_id], entries |-> 1]>>
    /\ approvals_by_id[last.token_id].ids[last.account_id] = 0
    /\ Cardinality(Keys(approvals_by_id[last.token_id].ids)) = 1

\* C26: every event a receipt logs carries no authorized delegate: the
\* nft_transfer event of a transfer made by an approved delegate that is not the
\* owner records authorized_id None, like the one of a transfer by the owner.
C26_NoDelegateRecorded ==
    \A k \in 1 .. Len(last.events) : last.events[k].authorized_id = NoAccount

\* nft_transfer by a delegate that is not the owner returned and logged its event
C26_Witness ==
    /\ last.op = "nft_transfer" /\ last.err = "ok"
    /\ Len(last.events) = 1
    /\ last.events[1].kind = "nft_transfer"
    /\ last.events[1].old_owner_id # last.predecessor
    /\ last.events[1].new_owner_id = owner_by_id[last.token_id]
    /\ last.events[1].authorized_id = NoAccount

\* the step runs nft_resolve_transfer for no pending chain: a call made by an
\* account with a promise result and arguments of its choosing
ForgedStep == last'.op = "nft_resolve_transfer" /\ UNCHANGED pending

\* C27: the owner of an existing token changes only by a transfer its owner or
\* an approved delegate made, or by the callback of a chain pending for that
\* token; and nft_resolve_transfer run for no pending chain changes no owner and
\* no approval map.
C27_OnlyTransferOrChain ==
    [][/\ \A t \in Tokens :
            (owner_by_id[t] # NoAccount /\ owner_by_id'[t] # owner_by_id[t])
            => \/ /\ last'.op \in TransferOps /\ last'.err = "ok"
                  /\ last'.token_id = t
                  /\ \/ last'.predecessor = owner_by_id[t]
                     \/ approvals_by_id[t].ids[last'.predecessor] # 0
               \/ \E i \in Chains : Resolves(i) /\ pending[i].token_id = t
       /\ ForgedStep => UNCHANGED <<owner_by_id, approvals_by_id>>]_vars

\* C28: the callback of a chain whose receiver transferred the token away while
\* the chain was pending does not roll back, whoever owns the token when it
\* runs: it returns true, logs no event and leaves the owner, the index and the
\* approval map as they are.
C28_MovedAwayIsFinal ==
    [][\A i \in Chains :
          (Resolves(i) /\ pending[i].moved)
          => /\ UNCHANGED ContractVars
             /\ last'.events = <<>>
             /\ last'.returned = "true"]_vars

\* the event that records the change of the owner of token t made by the step
OwnerChangeEvent(t) ==
    [kind |-> IF owner_by_id[t] = NoAccount THEN "nft_mint" ELSE "nft_transfer",
     old_owner_id |-> owner_by_id[t], new_owner_id |-> owner_by_id'[t],
     token_id |-> t, authorized_id |-> NoAccount]

\* C29: a receipt that changes the owner of a token logs exactly one event, an
\* nft_mint event for a token that had no owner and an nft_transfer event
\* otherwise, from the owner before to the owner after; a receipt that changes
\* no owner (an approval, a resolution that does not roll back, a failed call,
\* whose log is discarded with its writes) logs no event. So the new owner of the last event logged for a token is the
\* token's owner in every reachable state.
C29_EventsFollowOwner ==
    [][/\ \A t \in Tokens :
            owner_by_id'[t] # owner_by_id[t] => last'.events = <<OwnerChangeEvent(t)>>
       /\ owner_by_id' = owner_by_id => last'.events = <<>>]_vars

\* a rollback: the resolution returned false and logged the transfer from the
\* receiver back to the previous owner, who owns the token
C29_Witness ==
    /\ last.op = "nft_resolve_transfer" /\ last.returned = "false"
    /\ last.events = <<NftTransferEvent(last.receiver_id, last.predecessor,
                                        last.token_id, NoAccount)>>
    /\ owner_by_id[last.token_id] = last.predecessor
    /\ last.predecessor # last.receiver_id

\* C30: the per-owner index agrees with the owner map: a token is in the set of
\* an account exactly when the account owns it, so every existing token is in
\* one set and a token without owner in none, and a set is stored for an account
\* exactly when the account owns a token.
C30_IndexAgrees ==
    /\ \A a \in Accounts, t \in Tokens :
          t \in tokens_per_owner[a].ids <=> owner_by_id[t] = a
    /\ \A a \in Accounts :
          tokens_per_owner[a].some <=> tokens_per_owner[a].ids # {}

\* a rollback returned a token to the owner of the other token: the previous
\* owner's set holds both tokens and the receiver's set is gone
C30_Witness ==
    /\ last.op = "nft_resolve_transfer" /\ last.returned = "false"
    /\ last.predecessor # last.receiver_id
    /\ tokens_per_owner[last.predecessor] = [some |-> TRUE, ids |-> Tokens]
    /\ ~tokens_per_owner[last.receiver_id].some
    /\ \A t \in Tokens : owner_by_id[t] = last.predecessor

\* C31: nft_mint returns only for a caller that is on the allow list; by any
\* other caller it fails and changes nothing; and nft_mint of a token id that
\* has an owner fails and leaves the owner, the index, the approvals, the next
\* approval id and the royalty schedule as they are.
C31_OnlyAllowedMint ==
    [][last'.op = "nft_mint"
       => /\ last'.err = "ok" => last'.predecessor \in allow_list
          /\ last'.predecessor \notin allow_list
             => last'.err # "ok" /\ UNCHANGED ContractVars
          /\ owner_by_id[last'.token_id] # NoAccount
             => last'.err # "ok" /\ UNCHANGED ContractVars]_vars

====
